---------------------------- MODULE Spec2Model ----------------------------
(***************************************************************************)
(* Basie: fluent query builder, SQL grammar compiler and database engines. *)
(*                                                                         *)
(* SQL text is modelled as a sequence of lexemes ("pieces"): every blank   *)
(* is its own piece " ", the placeholder is the piece "?", and Str         *)
(* flattens a piece sequence to the string the code builds.  Bound values  *)
(* are integers; the count handed to limit() is a number n/d or NaN.       *)
(***************************************************************************)
EXTENDS Integers, Sequences, FiniteSets, TLC

VARIABLES
    engine,     \* BasieStatic.engine
    uses,       \* number of Basie.use() calls made so far
    stack,      \* builders under construction; the last one is the builder
                \* the running callback works on, stack[1] is the query
    calls,      \* number of calls the program has made (on the query, on the
                \* Based() instance, on Database, through the proxy)
    pc,         \* "building" until a terminal method ran, then "done"
    outcome,    \* what the last method call did: returned or threw
    sent,       \* statements handed to the engine, in order
    connection, \* the sqlite3 Database of Sqlite3Engine: its statements; or
                \* the DatabaseConnection `Database` of the Based() models
    inflight,   \* the Sqlite3Engine.insertAndGetId calls and their promises
    user,       \* a model instance: its fields, its relation accessors and
                \* the promises its methods returned; or the wrapped class
                \* `User` with the builders of its accesses
    compiler    \* the escape hooks of the compiler that a PostgresEngine in
                \* use hands out, as tables over the names of the queries

queryVars == <<engine, uses, stack, calls, pc, outcome, sent, user, compiler>>
engineVars == <<connection, inflight>>
vars == <<engine, uses, stack, calls, pc, outcome, sent, connection, inflight, user, compiler>>

-----------------------------------------------------------------------------
(* Bounds                                                                  *)

MaxCalls == 3
MaxCondCalls == 4
MaxDepth == 2
MaxRows == 2
MaxUses == 2
MaxTermCalls == 1
MaxInFlight == 3
MaxPgCalls == 2
MaxModelCalls == 3
MaxWhereCalls == 2
MaxLegacyCalls == 4
MaxDbCalls == 5
MaxWrapCalls == 4
MaxAccesses == 2

-----------------------------------------------------------------------------
(* Values of the program                                                   *)

Null == "null"
NoEngineError == "No database engine has been configured. Ensure that you use Basie.use(engine) before attempting any queries."
LimitError == "limit() expects a positive integer."

\* The numbers limit() may be handed: n/d with d > 0, and NaN as 0/0.
Num(n) == [n |-> n, d |-> 1]
Half(n) == [n |-> n, d |-> 2]
NaN == [n |-> 0, d |-> 0]

\* x < y of JavaScript: false when either side is NaN
LessThan(x, y) == x.d # 0 /\ y.d # 0 /\ x.n * y.d < y.n * x.d

\* Number.isInteger(x), for n/d in lowest terms
IsInteger(x) == x.d = 1

-----------------------------------------------------------------------------
(* Array and string helpers of the JavaScript runtime                      *)

\* [].concat(...xs): xs.reduce((p, c) => [...p, ...c], [])
RECURSIVE Flatten(_)
Flatten(xs) ==
    IF xs = <<>> THEN <<>> ELSE Head(xs) \o Flatten(Tail(xs))

\* xs.join(sep) on texts: every element is kept, also the empty ones
RECURSIVE ArrayJoin(_, _)
ArrayJoin(xs, sep) ==
    IF xs = <<>> THEN <<>>
    ELSE IF Len(xs) = 1 THEN xs[1]
    ELSE xs[1] \o sep \o ArrayJoin(Tail(xs), sep)

\* xs.map(f) is written [i \in 1..Len(xs) |-> f(xs[i])] where it is used

\* a.indexOf(e): the first index holding e (1-based), 0 when absent
IndexOf(a, e) ==
    IF \E i \in 1..Len(a) : a[i] = e
    THEN CHOOSE i \in 1..Len(a) : a[i] = e /\ \A j \in 1..(i - 1) : a[j] # e
    ELSE 0

\* a.filter((e, i, a) => a.indexOf(e) === i)
RECURSIVE UniqueFrom(_, _)
UniqueFrom(a, i) ==
    IF i > Len(a) THEN <<>>
    ELSE (IF IndexOf(a, a[i]) = i THEN <<a[i]>> ELSE <<>>) \o UniqueFrom(a, i + 1)

\* the string a piece sequence stands for
RECURSIVE Str(_)
Str(ps) ==
    IF ps = <<>> THEN "" ELSE Head(ps) \o Str(Tail(ps))

\* Object.keys(o) of an object written as a sequence of properties
\* <<key, value>> or <<key, value, typeof value>>
Keys(o) == [i \in 1..Len(o) |-> o[i][1]]

\* o[k] for a key the object has
Get(o, k) == o[CHOOSE i \in 1..Len(o) : o[i][1] = k][2]

\* typeof o[k] for a key the object has
TypeOf(o, k) == o[CHOOSE i \in 1..Len(o) : o[i][1] = k][3]

-----------------------------------------------------------------------------
(* QueryBuilder and JoinClause: the state of one builder and its chain     *)
(* methods, each an operator from the builder to the builder it leaves.    *)

\* new QueryBuilder(): the field initialisers; table is not yet assigned
NewQueryBuilder ==
    [ cls               |-> "QueryBuilder",
      aggregateFunction |-> Null,
      table             |-> "undefined",
      columns           |-> <<"*">>,
      isDistinct        |-> FALSE,
      joins             |-> <<>>,
      wheres            |-> <<>>,
      groups            |-> <<>>,
      orders            |-> <<>>,
      limitCount        |-> Num(-1),
      type              |-> Null,
      joiningOn         |-> Null ]

\* new JoinClause(type, joiningOn)
NewJoinClause(type, joiningOn) ==
    [ NewQueryBuilder EXCEPT !.cls = "JoinClause", !.table = joiningOn,
                             !.type = type, !.joiningOn = joiningOn ]

\* builder.select(...fields)
select(b, fields) == [b EXCEPT !.columns = fields]

\* builder.distinct(value)
distinct(b, value) == [b EXCEPT !.isDistinct = value]

\* builder.from(table), the string form
from(b, table) == [b EXCEPT !.table = table]

\* createNew that hands out the state of the builder it is called on
createNewClone(b) == b

\* builder.createNew(), overridden by JoinClause
createNew(b) ==
    IF b.cls = "JoinClause" THEN NewJoinClause(b.type, b.joiningOn)
    ELSE NewQueryBuilder

\* QueryBuilder.table(table)
table(t) == from(NewQueryBuilder, t)

\* builder.where(column, value) and builder.where(column, operator, value,
\* boolean): a is the argument list of the call
where(b, a) ==
    LET boolean == IF Len(a) >= 4 THEN a[4] ELSE "AND"
        short   == Len(a) < 3
    IN  [b EXCEPT !.wheres = Append(@,
            [ type     |-> "basic",
              column   |-> a[1],
              operator |-> IF short THEN "=" ELSE a[2],
              value    |-> IF short THEN a[2] ELSE a[3],
              boolean  |-> boolean ])]

\* orWhere that passes no connector on
orWhereNoConnector(b, a) == where(b, a)

\* builder.orWhere(column, value) and builder.orWhere(column, operator, value)
orWhere(b, a) ==
    IF Len(a) < 3 THEN where(b, <<a[1], "=", a[2], "OR">>)
    ELSE where(b, <<a[1], a[2], a[3], "OR">>)

\* builder.whereColumn(first, operator, second, boolean)
whereColumn(b, first, operator, second, boolean) ==
    [b EXCEPT !.wheres = Append(@,
        [ type |-> "column", first |-> first, operator |-> operator,
          second |-> second, boolean |-> boolean ])]

\* builder.orWhereColumn(first, operator, second)
orWhereColumn(b, first, operator, second) ==
    whereColumn(b, first, operator, second, "OR")

\* builder.whereRaw(query, args, boolean)
whereRaw(b, query, args, boolean) ==
    [b EXCEPT !.wheres = Append(@,
        [ type |-> "raw", sql |-> query, values |-> args, boolean |-> boolean ])]

\* builder.orWhereRaw(query, args)
orWhereRaw(b, query, args) == whereRaw(b, query, args, "OR")

\* builder.whereNull(column, boolean, negate)
whereNull(b, column, boolean, negate) ==
    [b EXCEPT !.wheres = Append(@,
        [ type |-> "null", column |-> column, boolean |-> boolean,
          negate |-> negate ])]

\* builder.orWhereNull(column)
orWhereNull(b, column) == whereNull(b, column, "OR", FALSE)

\* builder.whereNotNull(column)
whereNotNull(b, column) == whereNull(b, column, "AND", TRUE)

\* builder.orWhereNotNull(column)
orWhereNotNull(b, column) == whereNull(b, column, "OR", TRUE)

\* whereNested, first half: the builder the handler is called with
whereNestedBuilder(b) == from(createNew(b), b.table)

\* whereNested, second half: the handler has returned and left `nested`
whereNestedPush(b, nested, boolean) ==
    [b EXCEPT !.wheres = Append(@,
        [ type |-> "nested", builder |-> nested, boolean |-> boolean ])]

\* joinClause.on(first, operator, second, boolean)
on(b, first, operator, second, boolean) ==
    whereColumn(b, first, operator, second, boolean)

\* joinClause.orOn(first, operator, second)
orOn(b, first, operator, second) == on(b, first, operator, second, "OR")

\* join that puts the clause in front of the joins
joinPushFront(b, clause) == [b EXCEPT !.joins = <<clause>> \o @]

\* builder.join, second half: the clause is complete and is appended
joinPush(b, clause) == [b EXCEPT !.joins = Append(@, clause)]

\* builder.join(table, first, operator, second, type)
join(b, t, first, operator, second, type) ==
    joinPush(b, on(NewJoinClause(type, t), first, operator, second, "AND"))

\* builder.leftJoin(table, first, operator, second)
leftJoin(b, t, first, operator, second) ==
    join(b, t, first, operator, second, "LEFT")

\* builder.rightJoin(table, first, operator, second)
rightJoin(b, t, first, operator, second) ==
    join(b, t, first, operator, second, "RIGHT")

\* groupBy that keeps every name it is given
groupByAll(b, groups) ==
    [b EXCEPT !.groups = groups \o @]

\* builder.groupBy(...groups)
groupBy(b, groups) ==
    [b EXCEPT !.groups = UniqueFrom(groups \o @, 1)]

\* builder.orderBy(column, direction)
orderBy(b, column, direction) ==
    [b EXCEPT !.orders = Append(@, [column |-> column, direction |-> direction])]

\* builder.orderByAsc(column)
orderByAsc(b, column) == orderBy(b, column, "ASC")

\* builder.orderByDesc(column)
orderByDesc(b, column) == orderBy(b, column, "DESC")

\* builder.limit(count) throws for count < 1 ...
limitThrows(count) == LessThan(count, Num(1))

\* ... and sets limitCount otherwise
limit(b, count) == [b EXCEPT !.limitCount = count]

-----------------------------------------------------------------------------
(* SQLGrammarCompiler: a QueryComponent is [sql |-> pieces, args |-> values] *)

Empty == [sql |-> <<>>, args |-> <<>>]

\* the positions of the character sep in s, and the k-th of them (0 for
\* k = 0, past the end of s when there are fewer)
Occurrences(s, sep) == { i \in 1..Len(s) : SubSeq(s, i, i) = sep }
Occurrence(s, sep, k) ==
    IF k = 0 THEN 0
    ELSE IF k > Cardinality(Occurrences(s, sep)) THEN Len(s) + 1
    ELSE CHOOSE i \in Occurrences(s, sep) :
             Cardinality({ j \in Occurrences(s, sep) : j < i }) = k - 1

\* String.prototype.split on a separator of one character: the parts of s
\* between the occurrences of sep
Split(s, sep) ==
    [ k \in 1..(Cardinality(Occurrences(s, sep)) + 1) |->
        SubSeq(s, Occurrence(s, sep, k - 1) + 1, Occurrence(s, sep, k) - 1) ]

\* x => '"' + x + '"', mapped over the parts and joined with "."
RECURSIVE QuoteParts(_, _)
QuoteParts(parts, i) ==
    IF i > Len(parts) THEN ""
    ELSE (IF i = 1 THEN "" ELSE ".") \o "\"" \o parts[i] \o "\"" \o QuoteParts(parts, i + 1)

\* column.toLowerCase().indexOf(" as ") !== -1
HasAs(column) ==
    \E i \in 1..(Len(column) - 3) : SubSeq(column, i, i + 3) \in {" as ", " AS ", " As ", " aS "}

\* escapeColumn of the compiler of the PostgresEngine for a column without
\* a blank, which is what it is called with for each side of an alias
EscapeSide(column) ==
    IF column = "*" THEN column ELSE QuoteParts(Split(column, "."), 1)

\* escapeColumn of the compiler of the PostgresEngine
PostgresEscapeColumn(column) ==
    IF column = "*" THEN column
    ELSE IF HasAs(column)
         THEN LET parts == Split(column, " ")
              IN  EscapeSide(parts[1]) \o " AS " \o EscapeSide(parts[3])
         ELSE QuoteParts(Split(column, "."), 1)

\* escapeTable of the compiler of the PostgresEngine
PostgresEscapeTable(t) == QuoteParts(Split(t, "."), 1)

\* this.escapeColumn and this.escapeTable: the hooks of the compiler that the
\* engine in use hands out; those of the base compiler change nothing
escapeColumn(column) == IF engine = "postgres" THEN compiler.escapeColumn[column] ELSE column
escapeTable(t) == IF engine = "postgres" THEN compiler.escapeTable[t] ELSE t

\* the column and table names of the queries run with the PostgresEngine
Names ==
    { "*", "a", "b", "c", "id", "test.a", "test.b", "foo.b", "bar.a", "b AS c",
      "test", "foo", "bar", "users", "posts" }

\* PostgresEngine.getGrammarCompiler()
PostgresCompiler ==
    [ escapeColumn |-> [column \in Names |-> PostgresEscapeColumn(column)],
      escapeTable  |-> [t \in Names |-> PostgresEscapeTable(t)] ]

compileAggregate(builder) ==
    IF builder.aggregateFunction = Null THEN Empty
    ELSE LET columns == ArrayJoin([i \in 1..Len(builder.columns) |->
                                <<escapeColumn(builder.columns[i])>>], <<",", " ">>)
         IN  [ sql  |-> <<"SELECT", " ", builder.aggregateFunction, "(">>
                        \o (IF builder.isDistinct /\ columns # <<"*">>
                            THEN <<"DISTINCT", " ">> ELSE <<>>)
                        \o columns \o <<")", " ", "AS", " ", "aggregate">>,
               args |-> <<>> ]

\* compileColumns that renders the column list beside an aggregate
compileColumnsAlways(builder) ==
    [ sql  |-> (IF builder.isDistinct
                THEN <<"SELECT", " ", "DISTINCT", " ">> ELSE <<"SELECT", " ">>)
               \o ArrayJoin([i \in 1..Len(builder.columns) |->
                           <<escapeColumn(builder.columns[i])>>], <<",", " ">>),
      args |-> <<>> ]

compileColumns(builder) ==
    IF builder.aggregateFunction # Null THEN Empty
    ELSE [ sql  |-> (IF builder.isDistinct
                     THEN <<"SELECT", " ", "DISTINCT", " ">> ELSE <<"SELECT", " ">>)
                    \o ArrayJoin([i \in 1..Len(builder.columns) |->
                                <<escapeColumn(builder.columns[i])>>], <<",", " ">>),
           args |-> <<>> ]

compileFrom(builder) ==
    [ sql |-> <<"FROM", " ", escapeTable(builder.table)>>, args |-> <<>> ]

compileBasicWhere(w) ==
    [ sql  |-> <<escapeColumn(w.column), " ", w.operator, " ", "?">>,
      args |-> <<w.value>> ]

compileColumnWhere(w) ==
    [ sql  |-> <<escapeColumn(w.first), " ", w.operator, " ", escapeColumn(w.second)>>,
      args |-> <<>> ]

compileRawWhere(w) ==
    [ sql |-> w.sql, args |-> w.values ]

compileNullWhere(w) ==
    [ sql  |-> <<escapeColumn(w.column), " ", "IS", " ">>
               \o (IF w.negate THEN <<"NOT", " ">> ELSE <<>>) \o <<"NULL">>,
      args |-> <<>> ]

RECURSIVE compileConditions(_)

\* compileNestedWhere without the parentheses
compileNestedWhereBare(w) ==
    LET ret == compileConditions(w.builder)
    IN  [ sql |-> ret.sql, args |-> ret.args ]

compileNestedWhere(w) ==
    LET ret == compileConditions(w.builder)
    IN  [ sql |-> <<"(">> \o ret.sql \o <<")">>, args |-> ret.args ]

\* the content of one clause, by its type
compileWhereContent(w) ==
    CASE w.type = "basic"  -> compileBasicWhere(w)
      [] w.type = "column" -> compileColumnWhere(w)
      [] w.type = "raw"    -> compileRawWhere(w)
      [] w.type = "null"   -> compileNullWhere(w)
      [] w.type = "nested" -> compileNestedWhere(w)

\* compileConditionPart that writes the connector of the first clause too
compileConditionPartAlways(w, i) ==
    LET content == compileWhereContent(w)
    IN  [ sql  |-> <<w.boolean, " ">> \o content.sql,
          args |-> content.args ]

\* one element of `parts`: the clause at index i (1-based) of the list
compileConditionPart(w, i) ==
    LET content == compileWhereContent(w)
    IN  [ sql  |-> (IF i = 1 THEN <<>> ELSE <<w.boolean, " ">>) \o content.sql,
          args |-> content.args ]

compileConditions(builder) ==
    IF Len(builder.wheres) = 0 THEN Empty
    ELSE LET parts == [i \in 1..Len(builder.wheres) |->
                          compileConditionPart(builder.wheres[i], i)]
         IN  [ sql  |-> ArrayJoin([i \in 1..Len(parts) |-> parts[i].sql], <<" ">>),
               args |-> Flatten([i \in 1..Len(parts) |-> parts[i].args]) ]

compileWheres(builder) ==
    IF Len(builder.wheres) = 0 THEN Empty
    ELSE LET part == compileConditions(builder)
         IN  [ sql |-> <<"WHERE", " ">> \o part.sql, args |-> part.args ]

\* one element of `parts` in compileJoins
compileJoinPart(j) ==
    LET condition == compileConditions(j)
    IN  [ sql  |-> <<j.type, " ", "JOIN", " ", escapeTable(j.joiningOn), " ", "ON", " ">>
                   \o condition.sql,
          args |-> condition.args ]

compileJoins(builder) ==
    LET parts == [i \in 1..Len(builder.joins) |-> compileJoinPart(builder.joins[i])]
    IN  [ sql  |-> ArrayJoin([i \in 1..Len(parts) |-> parts[i].sql], <<" ">>),
          args |-> Flatten([i \in 1..Len(parts) |-> parts[i].args]) ]

compileGroups(builder) ==
    IF Len(builder.groups) = 0 THEN Empty
    ELSE [ sql  |-> <<"GROUP", " ", "BY", " ">>
                    \o ArrayJoin([i \in 1..Len(builder.groups) |->
                                <<escapeColumn(builder.groups[i])>>], <<",", " ">>),
           args |-> <<>> ]

compileOrders(builder) ==
    IF Len(builder.orders) = 0 THEN Empty
    ELSE [ sql  |-> <<"ORDER", " ", "BY", " ">>
                    \o ArrayJoin([i \in 1..Len(builder.orders) |->
                                <<escapeColumn(builder.orders[i].column), " ",
                                  builder.orders[i].direction>>], <<",", " ">>),
           args |-> <<>> ]

compileLimit(builder) ==
    IF builder.limitCount = Num(-1) THEN Empty
    ELSE [ sql |-> <<"LIMIT", " ", "?">>, args |-> <<builder.limitCount>> ]

\* compileComponents with the wheres key ahead of the joins key
compileComponentsWheresFirst(builder) ==
    << compileAggregate(builder),
       compileColumns(builder),
       compileFrom(builder),
       compileWheres(builder),
       compileJoins(builder),
       compileGroups(builder),
       compileOrders(builder),
       compileLimit(builder) >>

\* the components object, in the order of its keys
compileComponents(builder) ==
    << compileAggregate(builder),
       compileColumns(builder),
       compileFrom(builder),
       compileJoins(builder),
       compileWheres(builder),
       compileGroups(builder),
       compileOrders(builder),
       compileLimit(builder) >>

compileSelect(builder) ==
    LET components == compileComponents(builder)
        sqls       == [i \in 1..Len(components) |-> components[i].sql]
    IN  [ sql  |-> ArrayJoin(SelectSeq(sqls, LAMBDA x : x # <<>>), <<" ">>),
          args |-> Flatten([i \in 1..Len(components) |-> components[i].args]) ]

\* values is a non-empty list of rows, each a list of <<key, value>> pairs
\* compileInsert that reads every row in the key order of that row
compileInsertOwnKeys(builder, values) ==
    LET keys(r)      == SelectSeq(Keys(values[r]), LAMBDA x : TypeOf(values[r], x) # "function")
        columns      == ArrayJoin([i \in 1..Len(keys(1)) |-> <<escapeColumn(keys(1)[i])>>], <<",">>)
        args         == Flatten([r \in 1..Len(values) |->
                            [i \in 1..Len(keys(r)) |-> Get(values[r], keys(r)[i])]])
        placeholders == ArrayJoin([r \in 1..Len(values) |->
                            <<"(">> \o ArrayJoin([i \in 1..Len(keys(r)) |-> <<"?">>], <<",">>)
                            \o <<")">>], <<",", " ">>)
    IN  [ sql  |-> <<"INSERT", " ", "INTO", " ", escapeTable(builder.table), " ", "(">>
                   \o columns \o <<")", " ", "VALUES", " ">> \o placeholders,
          args |-> args ]

compileInsert(builder, values) ==
    LET keys         == SelectSeq(Keys(values[1]), LAMBDA x : TypeOf(values[1], x) # "function")
        columns      == ArrayJoin([i \in 1..Len(keys) |-> <<escapeColumn(keys[i])>>], <<",">>)
        args         == Flatten([r \in 1..Len(values) |->
                            [i \in 1..Len(keys) |-> Get(values[r], keys[i])]])
        placeholders == ArrayJoin([r \in 1..Len(values) |->
                            <<"(">> \o ArrayJoin([i \in 1..Len(keys) |-> <<"?">>], <<",">>)
                            \o <<")">>], <<",", " ">>)
    IN  [ sql  |-> <<"INSERT", " ", "INTO", " ", escapeTable(builder.table), " ", "(">>
                   \o columns \o <<")", " ", "VALUES", " ">> \o placeholders,
          args |-> args ]

\* compileUpdate returning the SET values ahead of the join args
compileUpdateSetArgsFirst(builder, value) ==
    LET keys    == Keys(value)
        columns == ArrayJoin([i \in 1..Len(keys) |-> <<keys[i], " ", "=", " ", "?">>], <<",", " ">>)
        args    == [i \in 1..Len(keys) |-> Get(value, keys[i])]
        joins   == compileJoins(builder)
        wheres  == compileWheres(builder)
    IN  [ sql  |-> <<"UPDATE", " ", escapeTable(builder.table)>> \o joins.sql
                   \o <<" ", "SET", " ">> \o columns \o <<" ">> \o wheres.sql,
          args |-> args \o joins.args \o wheres.args ]

\* value is the partial, a list of <<key, value>> pairs
compileUpdate(builder, value) ==
    LET keys    == Keys(value)
        columns == ArrayJoin([i \in 1..Len(keys) |-> <<keys[i], " ", "=", " ", "?">>], <<",", " ">>)
        args    == [i \in 1..Len(keys) |-> Get(value, keys[i])]
        joins   == compileJoins(builder)
        wheres  == compileWheres(builder)
    IN  [ sql  |-> <<"UPDATE", " ", escapeTable(builder.table)>> \o joins.sql
                   \o <<" ", "SET", " ">> \o columns \o <<" ">> \o wheres.sql,
          args |-> joins.args \o args \o wheres.args ]

compileDelete(builder) ==
    LET wheres == compileWheres(builder)
    IN  [ sql  |-> <<"DELETE", " ", "FROM", " ", escapeTable(builder.table), " ">>
                   \o wheres.sql,
          args |-> wheres.args ]

-----------------------------------------------------------------------------
(* Inputs of the calls                                                     *)

Booleans == {"AND", "OR"}
JoinTypes == {"INNER", "LEFT", "RIGHT"}
LimitCounts == {Num(-1), Num(0), Half(1), Num(1), Half(3), Num(2), NaN}

\* raw fragments with as many placeholders as values
RawLike == <<"a", " ", "LIKE", " ", "?">>
RawIn == <<"b", " ", "IN", " ", "(", "?", ",", " ", "?", ")">>

\* all values bound in a list of clauses, nested ones included
RECURSIVE BoundIn(_)
BoundIn(ws) ==
    IF ws = <<>> THEN 0
    ELSE LET w == Head(ws)
         IN  (CASE w.type = "basic"  -> 1
                [] w.type = "raw"    -> Len(w.values)
                [] w.type = "nested" -> BoundIn(w.builder.wheres)
                [] OTHER             -> 0) + BoundIn(Tail(ws))

RECURSIVE BoundInJoins(_)
BoundInJoins(js) ==
    IF js = <<>> THEN 0 ELSE BoundIn(Head(js).wheres) + BoundInJoins(Tail(js))

RECURSIVE BoundInStack(_)
BoundInStack(st) ==
    IF st = <<>> THEN 0
    ELSE BoundIn(Head(st).b.wheres) + BoundInJoins(Head(st).b.joins)
         + BoundInStack(Tail(st))

\* the value the next call binds: values are numbered in call order, so that
\* no two placeholders of a query carry the same value
NextValue == BoundInStack(stack) + 1

\* rows of an insert: n rows over the keys ks, each row listing the keys in
\* its own order; the value of key k in row r is 10 r + (1 for a, 2 for b).
\* A row may be a model: its key phones is a relation, a function, here
\* 10 r + 3.
RowKeyOrders ==
    { <<"a">>, <<"a", "b">>, <<"b", "a">>, <<"a", "phones", "b">>, <<"phones", "b", "a">> }
CellValue(r, k) == 10 * r + (CASE k = "a" -> 1 [] k = "b" -> 2 [] k = "phones" -> 3)
CellType(k) == IF k = "phones" THEN "function" ELSE "number"
Row(r, ks) == [i \in 1..Len(ks) |-> <<ks[i], CellValue(r, ks[i]), CellType(ks[i])>>]
SameKeys(ks1, ks2) == {ks1[i] : i \in 1..Len(ks1)} = {ks2[i] : i \in 1..Len(ks2)}

\* lists of n key orders over one key set (all rows have the same shape)
RowShapes(n) ==
    { s \in [1..n -> RowKeyOrders] : \A i \in 1..n : SameKeys(s[i], s[1]) }

\* the rows of one insert call
Rows(shape) == [r \in 1..Len(shape) |-> Row(r, shape[r])]


-----------------------------------------------------------------------------
(* The state machine: one query, from QueryBuilder.table("test") to its    *)
(* terminal method.  A callback (the handler of a nested where or of a     *)
(* join) runs between the Begin and the End of its call, on stack's top.   *)

Frame(b, via, boolean) == [b |-> b, via |-> via, boolean |-> boolean]

Top == stack[Len(stack)].b

Ok == [status |-> "ok", error |-> Null, call |-> Null, arg |-> <<>>]
Threw(call, error) == [status |-> "throw", error |-> error, call |-> call, arg |-> <<>>]

\* getEngine that hands out whatever the field holds
getEngineNeverThrows == FALSE

\* BasieStatic.getEngine()
getEngineThrows == engine = Null

\* a chain call that returns: the top builder becomes b
Chain(max, b) ==
    /\ pc = "building"
    /\ calls < max
    /\ stack' = [stack EXCEPT ![Len(stack)].b = b]
    /\ calls' = calls + 1
    /\ outcome' = Ok
    /\ UNCHANGED <<engine, uses, pc, sent, connection, inflight, user, compiler>>

\* where(column, value)
Where(max) == Chain(max, where(Top, <<"a", NextValue>>))

\* where(column, operator, value, boolean)
WhereOperator(max) ==
    \E boolean \in Booleans :
        Chain(max, where(Top, <<"b", "<", NextValue, boolean>>))

\* orWhere(column, value)
OrWhere(max) == Chain(max, orWhere(Top, <<"b", NextValue>>))

\* orWhere(column, operator, value)
OrWhereOperator(max) == Chain(max, orWhere(Top, <<"a", ">", NextValue>>))

WhereColumn(max) ==
    \E boolean \in Booleans : Chain(max, whereColumn(Top, "a", "=", "b", boolean))

OrWhereColumn(max) == Chain(max, orWhereColumn(Top, "a", "<", "b"))

WhereRaw(max, booleans) ==
    \E boolean \in booleans :
        Chain(max, whereRaw(Top, RawLike, <<NextValue>>, boolean))

OrWhereRaw(max) ==
    Chain(max, orWhereRaw(Top, RawIn, <<NextValue, NextValue + 1>>))

WhereNull(max) ==
    \E boolean \in Booleans, negate \in BOOLEAN :
        Chain(max, whereNull(Top, "a", boolean, negate))

OrWhereNull(max) == Chain(max, orWhereNull(Top, "b"))

WhereNotNull(max) == Chain(max, whereNotNull(Top, "b"))

OrWhereNotNull(max) == Chain(max, orWhereNotNull(Top, "a"))

\* where(handler), orWhere(handler), whereNested(handler, boolean) and
\* orWhereNested(handler) up to the call of the handler
\* the connector that whereNested gets: where(handler) and on(handler) pass
\* their default AND, the or-methods pass OR, whereNested(handler, boolean)
\* is called with it
NestedBoolean(entry, given) ==
    CASE entry = "where"         -> "AND"
      [] entry = "orWhere"       -> "OR"
      [] entry = "whereNested"   -> given
      [] entry = "orWhereNested" -> "OR"
      [] entry = "on"            -> "AND"
      [] entry = "orOn"          -> "OR"

WhereNestedBegin(max) ==
    /\ pc = "building"
    /\ calls < max
    /\ Len(stack) <= MaxDepth
    /\ \E entry \in {"where", "orWhere", "whereNested", "orWhereNested"}
                     \cup (IF Top.cls = "JoinClause" THEN {"on", "orOn"} ELSE {}) :
       \E given \in Booleans :
          stack' = Append(stack, Frame(whereNestedBuilder(Top), "whereNested",
                                       NestedBoolean(entry, given)))
    /\ calls' = calls + 1
    /\ outcome' = Ok
    /\ UNCHANGED <<engine, uses, pc, sent, connection, inflight, user, compiler>>

\* the handler returns: whereNested appends the nested clause
WhereNestedEnd ==
    /\ pc = "building"
    /\ Len(stack) > 1
    /\ stack[Len(stack)].via = "whereNested"
    /\ LET f      == stack[Len(stack)]
           rest   == SubSeq(stack, 1, Len(stack) - 1)
           parent == rest[Len(rest)].b
       IN  stack' = [rest EXCEPT ![Len(rest)].b = whereNestedPush(parent, f.b, f.boolean)]
    /\ outcome' = Ok
    /\ UNCHANGED <<engine, uses, calls, pc, sent, connection, inflight, user, compiler>>


\* join(table, first, operator, second)
Join(max) == Chain(max, join(Top, "foo", "test.a", "=", "foo.b", "INNER"))

\* leftJoin(table, first, operator, second)
LeftJoin(max) == Chain(max, leftJoin(Top, "foo", "test.a", "=", "foo.b"))

\* rightJoin(table, first, operator, second)
RightJoin(max) == Chain(max, rightJoin(Top, "bar", "test.b", "<", "bar.a"))

\* join, leftJoin and rightJoin with a handler, up to the call of the handler
JoinBegin(max, types) ==
    /\ pc = "building"
    /\ calls < max
    /\ Len(stack) <= MaxDepth
    /\ \E type \in types :
          stack' = Append(stack, Frame(NewJoinClause(type, "foo"), "join", Null))
    /\ calls' = calls + 1
    /\ outcome' = Ok
    /\ UNCHANGED <<engine, uses, pc, sent, connection, inflight, user, compiler>>

\* the handler returns: join appends the clause to joins
JoinEnd ==
    /\ pc = "building"
    /\ Len(stack) > 1
    /\ stack[Len(stack)].via = "join"
    /\ LET f      == stack[Len(stack)]
           rest   == SubSeq(stack, 1, Len(stack) - 1)
           parent == rest[Len(rest)].b
       IN  stack' = [rest EXCEPT ![Len(rest)].b = joinPush(parent, f.b)]
    /\ outcome' = Ok
    /\ UNCHANGED <<engine, uses, calls, pc, sent, connection, inflight, user, compiler>>

\* on(first, operator, second, boolean) of the join clause a handler works on
On(max) ==
    /\ Top.cls = "JoinClause"
    /\ \E boolean \in Booleans : Chain(max, on(Top, "test.a", "=", "foo.b", boolean))

\* orOn(first, operator, second)
OrOn(max) ==
    /\ Top.cls = "JoinClause"
    /\ Chain(max, orOn(Top, "test.b", "<", "foo.a"))

GroupBy(max, choices) ==
    \E groups \in choices : Chain(max, groupBy(Top, groups))

OrderBy(max) ==
    \E direction \in {"ASC", "DESC"} : Chain(max, orderBy(Top, "a", direction))

OrderByAsc(max) == Chain(max, orderByAsc(Top, "b"))

OrderByDesc(max) == Chain(max, orderByDesc(Top, "b"))

\* from(table)
From(max, tables) ==
    \E t \in tables : Chain(max, from(Top, t))

Select(max, choices) ==
    \E fields \in choices : Chain(max, select(Top, fields))

Distinct(max, choices) ==
    \E value \in choices : Chain(max, distinct(Top, value))

\* limit(count): the call throws for count < 1, and the exception leaves every
\* handler between the call and the frame that catches it
Limit(max) ==
    /\ pc = "building"
    /\ calls < max
    /\ \E count \in LimitCounts :
          IF limitThrows(count)
          THEN /\ \E caught \in 1..Len(stack) : stack' = SubSeq(stack, 1, caught)
               /\ outcome' = [Threw("limit", LimitError) EXCEPT !.arg = <<count>>]
          ELSE /\ stack' = [stack EXCEPT ![Len(stack)].b = limit(Top, count)]
               /\ outcome' = [Ok EXCEPT !.call = "limit", !.arg = <<count>>]
    /\ calls' = calls + 1
    /\ UNCHANGED <<engine, uses, pc, sent, connection, inflight, user, compiler>>

-----------------------------------------------------------------------------
(* Basie.use and the terminal methods                                      *)

Engines == {"sqlite"}

\* Basie.use(engine); the tests unset the engine with Basie.use(null)
Use ==
    /\ pc = "building"
    /\ uses < MaxUses
    /\ \E e \in Engines \cup {Null} : engine' = e
    /\ uses' = uses + 1
    /\ outcome' = Ok
    /\ UNCHANGED <<stack, calls, pc, sent, connection, inflight, user, compiler>>

Statement(method, q) == [method |-> method, sql |-> q.sql, args |-> q.args]

\* sql.replace(/\?/g, () => "$" + (i++)), from the i given: the parts of the
\* text between its "?", from the k-th on, each "?" replaced
RECURSIVE ReplaceFrom(_, _, _)
ReplaceFrom(parts, k, i) ==
    IF k = Len(parts) THEN parts[k]
    ELSE parts[k] \o "$" \o ToString(i) \o ReplaceFrom(parts, k + 1, i + 1)

ReplacePlaceholders(sql, i) == ReplaceFrom(Split(sql, "?"), 1, i)

\* transformQuery counting from 0
transformQueryFromZero(sql, params) == [text |-> ReplacePlaceholders(sql, 0), values |-> params]

\* PostgresEngine.transformQuery
transformQuery(sql, params) == [text |-> ReplacePlaceholders(sql, 1), values |-> params]

\* what the PostgresEngine hands to pool.query for a call of its `method`
PoolQuery(method, q) ==
    IF method = "insertAndGetId"
    THEN transformQuery(Str(q.sql) \o " RETURNING id", q.args)
    ELSE transformQuery(Str(q.sql), q.args)

\* A terminal method, called on the query itself: by the time it asks for the
\* engine the builder is b; with an engine, statement q goes to its `method`.
Terminal(call, arg, b, method, q) ==
    /\ pc = "building"
    /\ Len(stack) = 1
    /\ stack' = [stack EXCEPT ![1].b = b]
    /\ pc' = "done"
    /\ IF getEngineThrows
       THEN /\ outcome' = Threw(call, NoEngineError)
            /\ sent' = sent
       ELSE /\ outcome' = [status |-> "ok", error |-> Null, call |-> call, arg |-> arg]
            /\ sent' = Append(sent, Statement(method, q))
    /\ connection' = IF engine = "postgres"
                     THEN [connection EXCEPT !.log = Append(@, PoolQuery(method, q))]
                     ELSE connection
    /\ UNCHANGED <<engine, uses, calls, inflight, user, compiler>>

\* builder.get()
GetQuery == Terminal("get", <<>>, Top, "get", compileSelect(Top))

\* builder.all(): alias for get()
AllQuery == Terminal("all", <<>>, Top, "get", compileSelect(Top))

\* builder.first(): this.limit(1).get()
FirstQuery ==
    LET b == limit(Top, Num(1))
    IN  Terminal("first", <<>>, b, "get", compileSelect(b))

\* builder.find(id): this.where("id", id).first()
FindQuery ==
    LET b == limit(where(Top, <<"id", NextValue>>), Num(1))
    IN  Terminal("find", <<NextValue>>, b, "get", compileSelect(b))

\* builder.value(column): this.limit(1).get()
ValueQuery ==
    LET b == limit(Top, Num(1))
    IN  Terminal("value", <<"a">>, b, "get", compileSelect(b))

\* builder.pluck(column)
PluckQuery ==
    LET b == [Top EXCEPT !.columns = <<"a">>]
    IN  Terminal("pluck", <<"a">>, b, "get", compileSelect(b))

\* builder.aggregate(fn, column), up to the request for the engine; column is
\* Null when the caller passes none
aggregate(b, fn, column) ==
    [b EXCEPT !.columns = IF column # Null THEN <<column>> ELSE @,
              !.aggregateFunction = fn]

\* builder.count(), builder.sum(column), ... through builder.aggregate
AggregateQuery(choices) ==
    \E c \in choices :
        LET b == aggregate(Top, c[2], c[3])
        IN  Terminal(c[1], <<>>, b, "get", compileSelect(b))

\* builder.insert(...entries)
InsertQuery(shapes) ==
    \E shape \in shapes :
        Terminal("insert", Rows(shape), Top, "query", compileInsert(Top, Rows(shape)))

\* builder.insertAndGetId(entry)
InsertAndGetIdQuery ==
    LET entry == Rows(<<<<"a", "b">>>>)
    IN  Terminal("insertAndGetId", entry, Top, "insertAndGetId", compileInsert(Top, entry))

\* builder.update(values)
UpdateQuery(partials) ==
    \E values \in partials :
        Terminal("update", values, Top, "query", compileUpdate(Top, values))

\* builder.delete()
DeleteQuery == Terminal("delete", <<>>, Top, "query", compileDelete(Top))

-----------------------------------------------------------------------------
(* Sqlite3Engine over one sqlite3 Database                                 *)
(*                                                                         *)
(* The Database runs the statements handed to it on a thread pool.  A      *)
(* statement handed over inside serialize() is exclusive once queued: it   *)
(* starts only when nothing else runs, and nothing starts while it runs.   *)
(* last_insert_rowid() is a value of the connection.  When a statement     *)
(* completes the Database calls its callback, takes the statement off its  *)
(* count of running statements and starts what its queue allows; the       *)
(* promise callbacks of the program run either before or after that,       *)
(* depending on the version of the driver.                                 *)

InFlight == 1..MaxInFlight

\* a statement handed to the Database by call c; exclusive is the
\* serialize flag of the Database at that moment
Issued(c, kind, exclusive) == [ call |-> c, kind |-> kind, exclusive |-> exclusive ]

\* Database.run / Database.all: run the statement at once, or queue it
Schedule(conn, stmt) ==
    IF (conn.locked \/ stmt.exclusive) /\ conn.pending # {}
    THEN [conn EXCEPT !.queue = Append(@, stmt)]
    ELSE [conn EXCEPT !.locked = FALSE, !.pending = @ \cup {stmt}]

\* the Database starts the statements of its queue that may start
RECURSIVE Process(_)
Process(conn) ==
    IF /\ conn.queue # <<>>
       /\ ~conn.locked \/ conn.pending = {}
       /\ ~(Head(conn.queue).exclusive /\ conn.pending # {})
    THEN Process([conn EXCEPT !.queue = Tail(@),
                              !.locked = Head(conn.queue).exclusive,
                              !.pending = @ \cup {Head(conn.queue)}])
    ELSE conn

\* the end of a completed statement: off the count, then the queue
StatementEnded(conn, stmt) ==
    Process([conn EXCEPT !.pending = @ \ {stmt}, !.ending = {}])

\* the promise of query() or get() inside insertAndGetId is settled and
\* what waits for it has not run yet
Settled == {"queryResolved", "getResolved", "queryRejected", "getRejected"}

\* no promise callback is waiting to run and no statement is completing:
\* JavaScript runs them all before it takes the next event
Idle ==
    /\ \A c \in InFlight : inflight[c].pc \notin Settled
    /\ connection.ending = {}

\* Sqlite3Engine.insertAndGetId up to the first await: serialize() calls the
\* async callback, which calls query() and returns at its await; serialize()
\* then restores the mode of the Database
EngineInsertAndGetId(c) ==
    /\ Idle
    /\ inflight[c].pc = "idle"
    /\ c > 1 => inflight[c - 1].pc # "idle"
    /\ connection' = Schedule(connection, Issued(c, "run", TRUE))
    /\ inflight' = [inflight EXCEPT ![c].pc = "awaitQuery"]
    /\ UNCHANGED queryVars

\* a running INSERT completes: the row gets the next rowid and the callback
\* of query() resolves its promise
RunCompletes(c) ==
    /\ Idle
    /\ inflight[c].pc = "awaitQuery"
    /\ \E stmt \in connection.pending : \E ended \in BOOLEAN :
          /\ stmt.call = c /\ stmt.kind = "run"
          /\ LET done == [connection EXCEPT
                             !.rows = @ + 1,
                             !.lastInsertRowid = connection.rows + 1,
                             !.log = Append(@, <<c, "run">>)]
             IN  connection' = IF ended THEN StatementEnded(done, stmt)
                               ELSE [done EXCEPT !.ending = {stmt}]
    /\ inflight' = [inflight EXCEPT ![c].pc = "queryResolved",
                                    ![c].row = connection.rows + 1]
    /\ UNCHANGED queryVars

\* the async callback resumes after `await this.query(sql, params)` and
\* calls get(): the Database is no longer in serialize()
AfterQuery(c) ==
    /\ inflight[c].pc = "queryResolved"
    /\ connection' = Schedule(connection, Issued(c, "all", FALSE))
    /\ inflight' = [inflight EXCEPT ![c].pc = "awaitGet"]
    /\ UNCHANGED queryVars

\* a running SELECT last_insert_rowid() completes: the callback of get()
\* resolves its promise with the rows read
AllCompletes(c) ==
    /\ Idle
    /\ inflight[c].pc = "awaitGet"
    /\ \E stmt \in connection.pending : \E ended \in BOOLEAN :
          /\ stmt.call = c /\ stmt.kind = "all"
          /\ LET done == [connection EXCEPT !.log = Append(@, <<c, "all">>)]
             IN  connection' = IF ended THEN StatementEnded(done, stmt)
                               ELSE [done EXCEPT !.ending = {stmt}]
    /\ inflight' = [inflight EXCEPT ![c].pc = "getResolved",
                                    ![c].id = connection.lastInsertRowid]
    /\ UNCHANGED queryVars

\* .then(x => x[0]["id"]).then(resolve, reject)
AfterGet(c) ==
    /\ inflight[c].pc = "getResolved"
    /\ inflight' = [inflight EXCEPT ![c].pc = "done"]
    /\ UNCHANGED <<queryVars, connection>>

\* the statement of call c that is running; done is the connection once it
\* completed, which ends the statement now or after the promise callbacks
Completes(c, kind, done) ==
    \E stmt \in connection.pending : \E ended \in BOOLEAN :
        /\ stmt.call = c /\ stmt.kind = kind
        /\ connection' = IF ended THEN StatementEnded(done, stmt)
                          ELSE [done EXCEPT !.ending = {stmt}]

\* the INSERT of insertAndGetId fails: the callback of query() rejects its
\* promise with the error of the driver
RunFails(c) ==
    /\ Idle
    /\ inflight[c].pc = "awaitQuery"
    /\ Completes(c, "run", [connection EXCEPT !.log = Append(@, <<c, "run failed">>)])
    /\ inflight' = [inflight EXCEPT ![c].pc = "queryRejected", ![c].err = TRUE]
    /\ UNCHANGED queryVars

\* `await this.query(sql, params)` throws inside the async callback handed
\* to serialize(): the promise of that callback is rejected, nobody holds it,
\* and neither resolve nor reject of insertAndGetId is ever called
AfterQueryRejected(c) ==
    /\ inflight[c].pc = "queryRejected"
    /\ inflight' = [inflight EXCEPT ![c].pc = "pending"]
    /\ UNCHANGED <<queryVars, connection>>

\* the SELECT last_insert_rowid() of insertAndGetId fails: the callback of
\* get() rejects its promise
AllFails(c) ==
    /\ Idle
    /\ inflight[c].pc = "awaitGet"
    /\ Completes(c, "all", [connection EXCEPT !.log = Append(@, <<c, "all failed">>)])
    /\ inflight' = [inflight EXCEPT ![c].pc = "getRejected", ![c].err = TRUE]
    /\ UNCHANGED queryVars

\* .then(x => x[0]["id"]) is passed over and .then(resolve, reject) rejects
AfterGetRejected(c) ==
    /\ inflight[c].pc = "getRejected"
    /\ inflight' = [inflight EXCEPT ![c].pc = "rejected"]
    /\ UNCHANGED <<queryVars, connection>>

\* Sqlite3Engine.query, called on its own: connection.run(sql, params, cb)
EngineQuery(c) ==
    /\ Idle
    /\ inflight[c].pc = "idle"
    /\ c > 1 => inflight[c - 1].pc # "idle"
    /\ connection' = Schedule(connection, Issued(c, "run", FALSE))
    /\ inflight' = [inflight EXCEPT ![c].pc = "query"]
    /\ UNCHANGED queryVars

\* the callback of query(): err ? reject(err) : resolve()
QueryCompletes(c) ==
    /\ Idle
    /\ inflight[c].pc = "query"
    /\ \E err \in BOOLEAN :
          /\ Completes(c, "run",
                IF err THEN [connection EXCEPT !.log = Append(@, <<c, "run failed">>)]
                ELSE [connection EXCEPT !.rows = @ + 1,
                                        !.lastInsertRowid = connection.rows + 1,
                                        !.log = Append(@, <<c, "run">>)])
          /\ inflight' = [inflight EXCEPT ![c].pc = IF err THEN "rejected" ELSE "done",
                                          ![c].err = err]
    /\ UNCHANGED queryVars

\* Sqlite3Engine.get, called on its own: connection.all(sql, params, cb)
EngineGet(c) ==
    /\ Idle
    /\ inflight[c].pc = "idle"
    /\ c > 1 => inflight[c - 1].pc # "idle"
    /\ connection' = Schedule(connection, Issued(c, "all", FALSE))
    /\ inflight' = [inflight EXCEPT ![c].pc = "get"]
    /\ UNCHANGED queryVars

\* the callback of get(): err ? reject(err) : resolve(row)
GetCompletes(c) ==
    /\ Idle
    /\ inflight[c].pc = "get"
    /\ \E err \in BOOLEAN :
          /\ Completes(c, "all",
                [connection EXCEPT !.log = Append(@, <<c, IF err THEN "all failed" ELSE "all">>)])
          /\ inflight' = [inflight EXCEPT ![c].pc = IF err THEN "rejected" ELSE "done",
                                          ![c].err = err]
    /\ UNCHANGED queryVars

\* the Database ends a completed statement after the promise callbacks ran
DatabaseStatementEnd ==
    /\ \A c \in InFlight : inflight[c].pc \notin Settled
    /\ \E stmt \in connection.ending :
          connection' = StatementEnded(connection, stmt)
    /\ UNCHANGED <<queryVars, inflight>>

-----------------------------------------------------------------------------
(* BaseModel: one instance `user` of a wrapped model class with the fields  *)
(* name and user_id and the relations phone (hasOne), phones (hasMany) and  *)
(* owner (belongsTo).  Its methods hand a statement to the engine and       *)
(* return a promise; the engine answers the statements in any order.  The   *)
(* id 0 stands for undefined.                                               *)

Relations == {"phone", "phones", "owner"}

DeleteError == "Cannot delete object if it is not in the database."

\* new User(): tableName is what Object.getPrototypeOf(this).tableName reads
\* (wrap() puts tableName on the constructor; the prototype has it only if
\* the class declares it); instance is the `let instance` of each accessor
NewModel(tableName) ==
    [ tableName |-> tableName,
      id        |-> 0,
      idKey     |-> FALSE,
      instance  |-> [r \in Relations |-> 0],
      promises  |-> <<>>,
      returned  |-> <<>> ]

\* the own properties of the instance, in the order of their creation: the
\* relation fields of the constructor, the fields assigned by the program,
\* and id once something was assigned to it
Fields(o) ==
    << <<"phone", -1, "function">>, <<"phones", -1, "function">>,
       <<"owner", -1, "function">>, <<"name", 7, "number">>, <<"user_id", 3, "number">> >>
    \o (IF o.idKey THEN << <<"id", o.id, "number">> >> ELSE <<>>)

\* BaseModel.builder()
builder(o) == where(table(o.tableName), <<"id", o.id>>)

\* save() that inserts whatever the id is
saveQueryInsertOnly(o) ==
    [ method |-> "insertAndGetId", q |-> compileInsert(builder(o), <<Fields(o)>>) ]

\* BaseModel.save(): the statement it hands to the engine
saveQuery(o) ==
    IF o.id = 0
    THEN [ method |-> "insertAndGetId", q |-> compileInsert(builder(o), <<Fields(o)>>) ]
    ELSE [ method |-> "query", q |-> compileUpdate(builder(o), Fields(o)) ]

\* the query of a relation accessor: hasOne(Phone), hasMany(Phone) and
\* belongsTo(User) with the default foreign keys
relationQuery(o, r) ==
    CASE r = "phone"  -> compileSelect(limit(limit(where(table("phones"), <<"user_id", o.id>>),
                                                   Num(1)), Num(1)))
      [] r = "phones" -> compileSelect(where(table("phones"), <<"user_id", o.id>>))
      [] r = "owner"  -> compileSelect(limit(where(table("users"),
                                                   <<"id", Get(Fields(o), "user_id")>>), Num(1)))

\* an accessor that keeps nothing
instanceNever(o, r) == 0

\* `instance` of the accessor of relation r: 0 until it holds a promise
instance(o, r) == o.instance[r]

\* a method of the instance hands statement q to `method` of the engine and
\* returns a new promise; o is the instance once the promise exists
Issue(call, method, q, o) ==
    /\ ~getEngineThrows
    /\ Len(user.promises) < MaxModelCalls
    /\ sent' = Append(sent, Statement(method, q))
    /\ user' = [o EXCEPT !.promises = Append(@,
                   [ call |-> call, id |-> user.id, stmt |-> Len(sent) + 1,
                     state |-> "pending", value |-> 0 ])]
    /\ outcome' = [status |-> "ok", error |-> Null, call |-> call, arg |-> <<>>]
    /\ UNCHANGED <<engine, uses, stack, calls, pc, connection, inflight, compiler>>

\* user.save()
Save ==
    LET s == saveQuery(user)
    IN  Issue(IF user.id = 0 THEN "insert" ELSE "update", s.method, s.q, user)

\* user.delete()
Delete ==
    IF user.id = 0
    THEN /\ outcome' = Threw("delete", DeleteError)
         /\ UNCHANGED <<engine, uses, stack, calls, pc, sent, connection, inflight, user, compiler>>
    ELSE Issue("delete", "query", compileDelete(builder(user)), user)

\* user.phone(), user.phones(), user.owner(): the apply trap of the accessor
Invoke(r) ==
    /\ Len(user.returned) < MaxModelCalls
    /\ IF instance(user, r) # 0
       THEN /\ user' = [user EXCEPT !.returned = Append(@, <<r, instance(user, r)>>)]
            /\ outcome' = [status |-> "ok", error |-> Null, call |-> r, arg |-> <<>>]
            /\ UNCHANGED <<engine, uses, stack, calls, pc, sent, connection, inflight, compiler>>
       ELSE LET p == Len(user.promises) + 1
            IN  Issue(r, "get", relationQuery(user, r),
                      [user EXCEPT !.instance[r] = p,
                                   !.returned = Append(@, <<r, p>>)])

\* the engine answers the statement of promise p and the callbacks that the
\* method put on it run: with the id of the new row for an insert, with
\* new result objects for a relation; or it fails and none of them runs
Settles(p) ==
    /\ p <= Len(user.promises)
    /\ user.promises[p].state = "pending"
    /\ \E ok \in BOOLEAN :
          LET call  == user.promises[p].call
              rowid == connection.rows + 1
              value == CASE call = "insert" -> rowid
                         [] call \in Relations -> p
                         [] OTHER -> 0
          IN  /\ user' =
                    IF ~ok THEN [user EXCEPT !.promises[p].state = "rejected"]
                    ELSE [user EXCEPT !.promises[p].state = "resolved",
                                      !.promises[p].value = value,
                                      !.id = CASE call = "insert" -> rowid
                                               [] call = "delete" -> 0
                                               [] OTHER -> @,
                                      !.idKey = @ \/ call \in {"insert", "delete"}]
              /\ connection' =
                    IF ok /\ call = "insert"
                    THEN [connection EXCEPT !.rows = rowid, !.lastInsertRowid = rowid]
                    ELSE connection
    /\ UNCHANGED <<engine, uses, stack, calls, pc, outcome, sent, inflight, compiler>>


-----------------------------------------------------------------------------
(* DatabaseConnection, the connection of the Based() models: the exported  *)
(* instance `Database`.  Handle 0 stands for null; a handle is an object   *)
(* of the driver from `new Database(path, callback)` until the callback of *)
(* its close() has run.                                                    *)

AlreadyConnected == "Already connected."
NotConnected == "Not connected."

\* what reading a method of this.connection gives when it is null
TypeErrorOf(method) == "Cannot read property '" \o method \o "' of null"

\* a promise that the call returns already rejected
Rejected(call, error) ==
    [status |-> "reject", error |-> error, call |-> call, arg |-> <<>>]

Returned(call) == [status |-> "ok", error |-> Null, call |-> call, arg |-> <<>>]

\* new DatabaseConnection()
NewDatabaseConnection ==
    [ isConnected |-> FALSE,
      connection  |-> 0,
      created     |-> 0,
      handles     |-> {},
      opening     |-> {},
      closing     |-> <<>>,
      rows        |-> 0,
      log         |-> <<>> ]

\* the statement that `method` hands to the driver's connection
driverCall(db, method, sql) ==
    [db EXCEPT !.log = Append(@, <<db.connection, method, sql>>)]

\* connect(), the guard
connectGuard(db) == db.isConnected

\* connect(path), past the guard: new Database(path, callback)
connect(db) ==
    LET h == db.created + 1
    IN  [db EXCEPT !.created = h, !.connection = h,
                   !.handles = @ \cup {h}, !.opening = @ \cup {h}]

\* the callback of new Database, without an error
opened(db, h) == [db EXCEPT !.isConnected = TRUE, !.opening = @ \ {h}]

\* close(), past the guard: this.connection.close(callback)
close(db) == [db EXCEPT !.closing = Append(@, db.connection)]

\* the callback of close, for the i-th close that waits
closed(db, i) ==
    [db EXCEPT !.connection = 0, !.isConnected = FALSE,
               !.handles = @ \ {db.closing[i]},
               !.closing = SubSeq(@, 1, i - 1) \o SubSeq(@, i + 1, Len(@))]

\* a call of the DatabaseConnection that the program makes
DatabaseCall(max, db, result) ==
    /\ calls < max
    /\ calls' = calls + 1
    /\ connection' = db
    /\ outcome' = result
    /\ UNCHANGED <<engine, uses, stack, pc, sent, inflight, user, compiler>>

\* Database.connect(":memory:")
Connect ==
    IF connectGuard(connection)
    THEN DatabaseCall(MaxDbCalls, connection, Threw("connect", AlreadyConnected))
    ELSE DatabaseCall(MaxDbCalls, connect(connection), Returned("connect"))

\* the driver has opened handle h and calls back
Opened(h) ==
    /\ h \in connection.opening
    /\ connection' = opened(connection, h)
    /\ UNCHANGED <<engine, uses, stack, calls, pc, outcome, sent, inflight, user, compiler>>

\* Database.close()
Close ==
    CASE ~connection.isConnected ->
            DatabaseCall(MaxDbCalls, connection, Threw("close", NotConnected))
      [] connection.isConnected /\ connection.connection = 0 ->
            DatabaseCall(MaxDbCalls, connection, Rejected("close", TypeErrorOf("close")))
      [] OTHER ->
            DatabaseCall(MaxDbCalls, close(connection), Returned("close"))

\* the driver calls back for a close(): it does so once the handle is open,
\* with an error when the handle was closed before
Closed(i) ==
    /\ i \in DOMAIN connection.closing
    /\ connection.closing[i] \notin connection.opening
    /\ \A j \in 1..(i - 1) : connection.closing[j] # connection.closing[i]
    /\ connection' = closed(connection, i)
    /\ UNCHANGED <<engine, uses, stack, calls, pc, outcome, sent, inflight, user, compiler>>

\* Database.run(query), Database.get(query) and Database.all(query)
Run(method) ==
    CASE ~connection.isConnected ->
            DatabaseCall(MaxDbCalls, connection, Threw(method, NotConnected))
      [] connection.isConnected /\ connection.connection = 0 ->
            DatabaseCall(MaxDbCalls, connection, Rejected(method, TypeErrorOf(method)))
      [] OTHER ->
            DatabaseCall(MaxDbCalls, driverCall(connection, method, "SELECT * FROM user"),
                         Returned(method))

\* Database.runSequentially(() => {})
RunSequentially ==
    CASE ~connection.isConnected ->
            DatabaseCall(MaxDbCalls, connection, Threw("runSequentially", NotConnected))
      [] connection.isConnected /\ connection.connection = 0 ->
            DatabaseCall(MaxDbCalls, connection,
                         Threw("runSequentially", TypeErrorOf("serialize")))
      [] OTHER ->
            DatabaseCall(MaxDbCalls, driverCall(connection, "serialize", ""),
                         Returned("runSequentially"))


-----------------------------------------------------------------------------
(* Based(): one instance `user` of the class that Based(User) returns,     *)
(* with the @field name and the @children roles.  __props.id 0 stands for  *)
(* undefined, name Null for undefined.  Its statements go to Database; the *)
(* driver answers them in any order.                                       *)

PoisonError == "This object was deleted and can no longer be used."
NullMemberError == "Trying to save() a document with null or undefined members."
ChildrenError ==
    "Writing to children does not do anything, and is thus prohibited to prevent confusion."

\* new UserModel()
NewBasieClass ==
    [ __poisoned |-> FALSE,
      __props    |-> [ id |-> 0, name |-> Null, roles |-> Null ],
      promises   |-> <<>> ]

\* BasieClass.materialize(object): the instance for a row of the table
materialize(object) ==
    [ NewBasieClass EXCEPT !.__props = [ id |-> object.id, name |-> object.name,
                                         roles |-> "frozen" ] ]

InsertSql == "INSERT INTO user (name) VALUES (?)"
LastIdSql == "SELECT last_insert_rowid() as id FROM user"
UpdateSql == "UPDATE user SET name = ? WHERE id = ?"
DeleteSql == "DELETE FROM user WHERE id = ?"

\* a call on the instance: it leaves instance o and database db behind
BasieCall(o, db, result) ==
    /\ calls < MaxLegacyCalls
    /\ calls' = calls + 1
    /\ user' = o
    /\ connection' = db
    /\ outcome' = result
    /\ UNCHANGED <<engine, uses, stack, pc, sent, inflight, compiler>>

\* the instance with one more promise waiting for the driver
Waiting(o, call) ==
    [o EXCEPT !.promises = Append(@, [ call |-> call, state |-> "pending" ])]

\* get id()
GetId ==
    IF user.__poisoned
    THEN BasieCall(user, connection, Threw("get id", PoisonError))
    ELSE BasieCall(user, connection,
                   [Returned("get id") EXCEPT !.arg = <<user.__props.id>>])

\* the getter that @field defines for name
GetField ==
    IF user.__poisoned
    THEN BasieCall(user, connection, Threw("get name", PoisonError))
    ELSE BasieCall(user, connection,
                   [Returned("get name") EXCEPT !.arg = <<user.__props.name>>])

\* the setter that @field defines for name
SetField ==
    \E val \in {"Thijs", "Foo"} :
        IF user.__poisoned
        THEN BasieCall(user, connection, Threw("set name", PoisonError))
        ELSE BasieCall([user EXCEPT !.__props.name = val], connection,
                       [Returned("set name") EXCEPT !.arg = <<val>>])

\* the getter that @children defines for roles
GetChildren ==
    IF user.__poisoned
    THEN BasieCall(user, connection, Threw("get roles", PoisonError))
    ELSE BasieCall(user, connection,
                   [Returned("get roles") EXCEPT !.arg = <<user.__props.roles>>])

\* the setter that @children defines for roles
SetChildren == BasieCall(user, connection, Threw("set roles", ChildrenError))

\* user.save()
BasieSave ==
    CASE user.__poisoned ->
            BasieCall(user, connection, Threw("save", PoisonError))
      [] ~user.__poisoned /\ user.__props.name = Null ->
            BasieCall(user, connection, Threw("save", NullMemberError))
      [] ~user.__poisoned /\ user.__props.name # Null /\ user.__props.id = 0 ->
            \* new Promise(resolve => Database.runSequentially(...))
            IF ~connection.isConnected
            THEN BasieCall(user, connection, Rejected("save", NotConnected))
            ELSE BasieCall(Waiting(user, "insert"),
                           driverCall(driverCall(driverCall(connection,
                               "serialize", ""), "run", InsertSql), "get", LastIdSql),
                           Returned("save"))
      [] OTHER ->
            IF ~connection.isConnected
            THEN BasieCall(user, connection, Threw("save", NotConnected))
            ELSE BasieCall(Waiting(user, "update"),
                           driverCall(connection, "run", UpdateSql), Returned("save"))

\* user.destroy(): the function is async, so what it throws rejects the
\* promise that the call returns
BasieDestroy ==
    CASE user.__poisoned ->
            BasieCall(user, connection, Rejected("destroy", PoisonError))
      [] ~user.__poisoned /\ user.__props.id = 0 ->
            BasieCall(user, connection, Returned("destroy"))
      [] OTHER ->
            IF ~connection.isConnected
            THEN BasieCall(user, connection, Rejected("destroy", NotConnected))
            ELSE BasieCall(Waiting(user, "destroy"),
                           driverCall(connection, "run", DeleteSql), Returned("destroy"))

\* the driver answers the statements of promise p and the code that waits
\* for them runs; a failed insert leaves its promise pending for ever
Answered(p) ==
    /\ p \in DOMAIN user.promises
    /\ user.promises[p].state = "pending"
    /\ \E ok \in BOOLEAN :
          LET call  == user.promises[p].call
              rowid == connection.rows + 1
          IN  /\ user' =
                    CASE ~ok /\ call = "insert" -> [user EXCEPT !.promises[p].state = "stuck"]
                      [] ~ok /\ call # "insert" -> [user EXCEPT !.promises[p].state = "rejected"]
                      [] ok /\ call = "insert" ->
                            [user EXCEPT !.promises[p].state = "resolved",
                                         !.__props.id = rowid]
                      [] ok /\ call = "destroy" ->
                            [user EXCEPT !.promises[p].state = "resolved",
                                         !.__props.id = 0,
                                         !.__poisoned = TRUE]
                      [] OTHER -> [user EXCEPT !.promises[p].state = "resolved"]
              /\ connection' = IF ok /\ call = "insert"
                               THEN [connection EXCEPT !.rows = rowid]
                               ELSE connection
    /\ UNCHANGED <<engine, uses, stack, calls, pc, outcome, sent, inflight, compiler>>


-----------------------------------------------------------------------------
(* Basie.wrap: the proxy `User` around a model class.  builders holds, for *)
(* each access of a query method on the proxy, the builder that the method *)
(* was bound to (the program may keep what the method returns, and call on *)
(* it later); history holds the calls that the program made through each   *)
(* access.                                                                 *)

\* Basie.wrap<_User>()(_User, tableName)
wrap(tableName) == [ tableName |-> tableName, builders |-> <<>>, history |-> <<>> ]

\* QueryBuilder.model(model)
model(local) == [NewQueryBuilder EXCEPT !.table = local.tableName, !.columns = <<"*">>]

\* a get trap that binds every method to the builder of the access before
proxyGetShared(local) ==
    IF local.builders = <<>> THEN model(local)
    ELSE local.builders[Len(local.builders)]

\* the get trap of the proxy, for the name of a query method: the builder
\* that the method it returns is bound to
proxyGet(local) == model(local)

\* the calls that the program makes: chain methods and terminal methods
WrapCalls ==
    { <<"where", "a", 1>>, <<"join">>, <<"orderByDesc">>, <<"limit">>, <<"get">>,
      <<"count">> }

WrapTerminals == { <<"get">>, <<"count">> }

\* builder.<call>: the builder that the call leaves
Apply(b, c) ==
    CASE c[1] = "where"       -> where(b, <<c[2], c[3]>>)
      [] c[1] = "join"        -> join(b, "phones", "users.id", "=", "phones.user_id", "INNER")
      [] c[1] = "orderByDesc" -> orderByDesc(b, "a")
      [] c[1] = "limit"       -> limit(b, Num(1))
      [] c[1] = "count"       -> aggregate(b, "COUNT", Null)
      [] c[1] = "get"         -> b

\* call c made on builder b of access i
WrapCall(i, b, c) ==
    /\ calls < MaxWrapCalls
    /\ ~getEngineThrows
    /\ calls' = calls + 1
    /\ LET after == Apply(b, c)
       IN  /\ user' = IF i > Len(user.builders)
                      THEN [user EXCEPT !.builders = Append(@, after),
                                        !.history = Append(@, <<c>>)]
                      ELSE [user EXCEPT !.builders[i] = after,
                                        !.history[i] = Append(@, c)]
           /\ sent' = IF c \in WrapTerminals
                      THEN Append(sent, Statement("get", compileSelect(after)))
                      ELSE sent
    /\ outcome' = [status |-> "ok", error |-> Null, call |-> c[1], arg |-> <<i>>]
    /\ UNCHANGED <<engine, uses, stack, pc, connection, inflight, compiler>>

\* User.<method>(...): the get trap finds no static of that name, makes a
\* builder and returns the method bound to it; the program calls it
ProxyGet ==
    /\ Len(user.builders) < MaxAccesses
    /\ \E c \in WrapCalls : WrapCall(Len(user.builders) + 1, proxyGet(user), c)

\* a call on what a call through access i returned: the same builder
Continue(i) ==
    /\ i \in DOMAIN user.builders
    /\ \E c \in WrapCalls : WrapCall(i, user.builders[i], c)

\* User.tableName: the property exists on the class and the trap returns it
ProxyGetStatic ==
    /\ calls < MaxWrapCalls
    /\ calls' = calls + 1
    /\ outcome' = [status |-> "ok", error |-> Null, call |-> "tableName",
                   arg |-> <<user.tableName>>]
    /\ UNCHANGED <<engine, uses, stack, pc, sent, connection, inflight, user, compiler>>

-----------------------------------------------------------------------------
(* Specifications                                                          *)

\* the query QueryBuilder.table("test") with no call made yet
InitQuery ==
    /\ stack = <<Frame(table("test"), "root", Null)>>
    /\ calls = 0
    /\ pc = "building"
    /\ outcome = Ok
    /\ sent = <<>>
    /\ user = Null

\* Basie as constructed: no engine
InitNoEngine == engine = Null /\ uses = 0 /\ compiler = Null

\* Basie after Basie.sqlite(db)
InitSqlite == engine = "sqlite" /\ uses = 1 /\ compiler = Null

\* a connection to a database whose table is empty; no call made yet
InitEngine ==
    /\ connection = [ queue |-> <<>>, pending |-> {}, ending |-> {}, locked |-> FALSE,
                      lastInsertRowid |-> 0, rows |-> 0, log |-> <<>> ]
    /\ inflight = [ c \in 1..MaxInFlight |->
                        [ pc |-> "idle", row |-> 0, id |-> 0, err |-> FALSE ] ]

Init == InitSqlite /\ InitQuery /\ InitEngine

\* a builder as its constructor leaves it, no table set, and Basie.sqlite(db)
InitUnset ==
    /\ InitSqlite
    /\ InitEngine
    /\ stack = <<Frame(NewQueryBuilder, "root", Null)>>
    /\ calls = 0
    /\ pc = "building"
    /\ outcome = Ok
    /\ sent = <<>>
    /\ user = Null

\* Basie after Basie.use(new PostgresEngine(pool)); log is what the pool was
\* asked to run
InitPostgres ==
    /\ engine = "postgres"
    /\ uses = 1
    /\ compiler = PostgresCompiler
    /\ InitQuery
    /\ connection = [log |-> <<>>]
    /\ inflight = <<>>

\* rows of two keys, every row after the first listing them in reverse
TwoKeyShapes ==
    { [r \in 1..n |-> IF r = 1 THEN <<"a", "b">> ELSE <<"b", "a">>] : n \in 1..MaxRows }

\* Spec: a query built with every kind of component and compiled to each of
\* the four statements
Next ==
    \/ Where(MaxCalls)
    \/ OrWhereRaw(MaxCalls)
    \/ WhereNestedBegin(MaxCalls)
    \/ WhereNestedEnd
    \/ Join(MaxCalls)
    \/ JoinBegin(MaxCalls, {"LEFT"})
    \/ JoinEnd
    \/ OrOn(MaxCalls)
    \/ GroupBy(MaxCalls, { <<"a", "b">> })
    \/ OrderByDesc(MaxCalls)
    \/ Select(MaxCalls, { <<"a", "b AS c">> })
    \/ Distinct(MaxCalls, {TRUE})
    \/ Limit(MaxCalls)
    \/ GetQuery
    \/ AggregateQuery({ <<"count", "COUNT", Null>>, <<"max", "MAX", "b">> })
    \/ InsertQuery(TwoKeyShapes)
    \/ UpdateQuery({ <<<<"a", 7>>>>, <<<<"b", 8>>, <<"a", 7>>>> })
    \/ DeleteQuery

Spec == Init /\ [][Next]_vars

\* SpecCond: condition lists (WHERE, ON and nested groups) of every clause
\* kind, nested to MaxDepth, compiled to a select
NextCond ==
    \/ Where(MaxCondCalls)
    \/ OrWhere(MaxCondCalls)
    \/ OrWhereColumn(MaxCondCalls)
    \/ WhereNestedBegin(MaxCondCalls)
    \/ WhereNestedEnd
    \/ JoinBegin(MaxCondCalls, {"INNER"})
    \/ On(MaxCondCalls)
    \/ JoinEnd
    \/ GetQuery

SpecCond == Init /\ [][NextCond]_vars

\* the aggregate methods: <<method, function, column>>
Aggregates ==
    { <<"exists", "COUNT", Null>>, <<"count", "COUNT", Null>>,
      <<"sum", "SUM", "a">>, <<"avg", "AVG", "a">>,
      <<"min", "MIN", Null>>, <<"max", "MAX", "b">> }

\* SpecTerminal: Basie as constructed, Basie.use() with an engine or with
\* null, a query of at most MaxTermCalls chain calls, and every terminal
\* method
NextTerminal ==
    \/ Use
    \/ WhereOperator(MaxTermCalls)
    \/ OrWhereOperator(MaxTermCalls)
    \/ WhereColumn(MaxTermCalls)
    \/ WhereRaw(MaxTermCalls, {"AND"})
    \/ WhereNull(MaxTermCalls)
    \/ OrWhereNull(MaxTermCalls)
    \/ WhereNotNull(MaxTermCalls)
    \/ OrWhereNotNull(MaxTermCalls)
    \/ LeftJoin(MaxTermCalls)
    \/ RightJoin(MaxTermCalls)
    \/ OrderBy(MaxTermCalls)
    \/ OrderByAsc(MaxTermCalls)
    \/ GetQuery
    \/ AllQuery
    \/ FirstQuery
    \/ FindQuery
    \/ ValueQuery
    \/ PluckQuery
    \/ AggregateQuery(Aggregates)
    \/ InsertQuery(TwoKeyShapes)
    \/ InsertAndGetIdQuery
    \/ UpdateQuery({<<<<"a", 7>>>>})
    \/ DeleteQuery

InitTerminal == InitNoEngine /\ InitQuery /\ InitEngine

SpecTerminal == InitTerminal /\ [][NextTerminal]_vars

\* SpecInsert: inserts of up to MaxRows rows of one key set, each row with
\* its keys in an order of its own, plain rows and models, into a table
\* chosen by from()
NextInsert ==
    \/ From(MaxCalls, {"users", "posts"})
    \/ Where(MaxCalls)
    \/ \E n \in 1..MaxRows : InsertQuery(RowShapes(n))
    \/ InsertAndGetIdQuery

SpecInsert == Init /\ [][NextInsert]_vars

\* SpecJoin: joins of every kind, in the explicit form and with a handler
NextJoin ==
    \/ Join(MaxCalls)
    \/ LeftJoin(MaxCalls)
    \/ RightJoin(MaxCalls)
    \/ JoinBegin(MaxCalls, JoinTypes)
    \/ On(MaxCalls)
    \/ OrOn(MaxCalls)
    \/ JoinEnd
    \/ GetQuery

SpecJoin == Init /\ [][NextJoin]_vars

\* SpecPostgres: queries of every kind compiled and run with the PostgresEngine
NextPostgres ==
    \/ Where(MaxPgCalls)
    \/ WhereColumn(MaxPgCalls)
    \/ WhereNull(MaxPgCalls)
    \/ WhereNestedBegin(MaxPgCalls)
    \/ WhereNestedEnd
    \/ Join(MaxPgCalls)
    \/ GroupBy(MaxPgCalls, { <<"a", "test.b">> })
    \/ OrderBy(MaxPgCalls)
    \/ Select(MaxPgCalls, { <<"test.a", "b AS c">> })
    \/ GetQuery
    \/ AggregateQuery({ <<"count", "COUNT", Null>>, <<"max", "MAX", "b">> })
    \/ InsertQuery(TwoKeyShapes)
    \/ InsertAndGetIdQuery
    \/ UpdateQuery({ <<<<"a", 7>>>>, <<<<"b", 8>>, <<"a", 7>>>> })
    \/ DeleteQuery

SpecPostgres == InitPostgres /\ [][NextPostgres]_vars

\* SpecUnset: a builder that starts without a table, built and compiled to
\* each of the four statements
NextUnset ==
    \/ From(MaxCalls, {"users", "posts"})
    \/ Where(MaxCalls)
    \/ OrderByAsc(MaxCalls)
    \/ GetQuery
    \/ InsertQuery(TwoKeyShapes)
    \/ UpdateQuery({ <<<<"a", 7>>>> })
    \/ DeleteQuery

SpecUnset == InitUnset /\ [][NextUnset]_vars

\* the argument lists of groupBy: names new and old, repeated within a call
GroupChoices ==
    { <<"a">>, <<"b">>, <<"a", "b">>, <<"b", "a">>, <<"a", "a">>, <<"c", "a", "c">> }

\* SpecGroup: groupBy called over and over
NextGroup ==
    \/ GroupBy(MaxCalls, GroupChoices)
    \/ Select(MaxCalls, { <<"a">>, <<"a", "b AS c">> })
    \/ GetQuery

SpecGroup == Init /\ [][NextGroup]_vars

\* SpecWhere: every where method
NextWhere ==
    \/ Where(MaxWhereCalls)
    \/ WhereOperator(MaxWhereCalls)
    \/ OrWhere(MaxWhereCalls)
    \/ OrWhereOperator(MaxWhereCalls)
    \/ WhereColumn(MaxWhereCalls)
    \/ OrWhereColumn(MaxWhereCalls)
    \/ WhereRaw(MaxWhereCalls, Booleans)
    \/ OrWhereRaw(MaxWhereCalls)
    \/ WhereNull(MaxWhereCalls)
    \/ OrWhereNull(MaxWhereCalls)
    \/ WhereNotNull(MaxWhereCalls)
    \/ OrWhereNotNull(MaxWhereCalls)
    \/ WhereNestedBegin(MaxWhereCalls)
    \/ WhereNestedEnd
    \/ GetQuery

SpecWhere == Init /\ [][NextWhere]_vars

\* SpecEngine: up to MaxInFlight calls of Sqlite3Engine.insertAndGetId on one
\* connection, each made at any moment after the one before it
NextEngine ==
    \/ \E c \in InFlight : EngineInsertAndGetId(c)
    \/ DatabaseStatementEnd
    \/ \E c \in InFlight : RunCompletes(c)
    \/ \E c \in InFlight : AfterQuery(c)
    \/ \E c \in InFlight : AllCompletes(c)
    \/ \E c \in InFlight : AfterGet(c)

\* no statement sent, a new User() on which nothing was called
InitModel ==
    /\ InitSqlite
    /\ InitEngine
    /\ stack = <<>>
    /\ calls = 0
    /\ pc = "building"
    /\ outcome = Ok
    /\ sent = <<>>
    /\ user \in { NewModel(t) : t \in {"users", "undefined"} }

\* SpecModel: save, delete and the relation accessors of one instance, the
\* engine answering when it likes
NextModel ==
    \/ Save
    \/ Delete
    \/ \E r \in Relations : Invoke(r)
    \/ \E p \in 1..MaxModelCalls : Settles(p)

SpecModel == InitModel /\ [][NextModel]_vars

SpecEngine == Init /\ [][NextEngine]_vars

\* SpecFailure: calls of query, get and insertAndGetId on one connection,
\* every statement of which the driver may fail.  The driver completes the
\* statements it runs and JavaScript runs the callbacks that are due.
NextFailure ==
    \/ \E c \in InFlight : EngineInsertAndGetId(c)
    \/ \E c \in InFlight : EngineQuery(c)
    \/ \E c \in InFlight : EngineGet(c)
    \/ DatabaseStatementEnd
    \/ \E c \in InFlight : RunCompletes(c)
    \/ \E c \in InFlight : RunFails(c)
    \/ \E c \in InFlight : AfterQuery(c)
    \/ \E c \in InFlight : AfterQueryRejected(c)
    \/ \E c \in InFlight : AllCompletes(c)
    \/ \E c \in InFlight : AllFails(c)
    \/ \E c \in InFlight : AfterGet(c)
    \/ \E c \in InFlight : AfterGetRejected(c)
    \/ \E c \in InFlight : QueryCompletes(c)
    \/ \E c \in InFlight : GetCompletes(c)

SpecFailure == Init /\ [][NextFailure]_vars /\ WF_vars(NextFailure)


\* the Database once connect has resolved, the table holding `rows` rows
Connected(rows) == [ opened(connect(NewDatabaseConnection), 1) EXCEPT !.rows = rows ]

\* a new UserModel() while the Database is connected or not, or the user
\* that UserModel.first() gave for the one row of the table
InitLegacy ==
    /\ InitNoEngine
    /\ stack = <<>>
    /\ calls = 0
    /\ pc = "legacy"
    /\ outcome = Ok
    /\ sent = <<>>
    /\ inflight = <<>>
    /\ \/ user = NewBasieClass /\ connection \in {NewDatabaseConnection, Connected(0)}
       \/ user = materialize([id |-> 1, name |-> "Thijs"]) /\ connection = Connected(1)

\* SpecLegacy: the methods and properties of one instance of a Based()
\* class, used in any order, the driver answering when it likes
NextLegacy ==
    \/ BasieSave
    \/ BasieDestroy
    \/ GetId
    \/ GetField
    \/ SetField
    \/ GetChildren
    \/ SetChildren
    \/ \E p \in 1..MaxLegacyCalls : Answered(p)

SpecLegacy == InitLegacy /\ [][NextLegacy]_vars


\* the exported Database, on which nothing was called
InitDatabase ==
    /\ InitNoEngine
    /\ stack = <<>>
    /\ calls = 0
    /\ pc = "legacy"
    /\ outcome = Ok
    /\ sent = <<>>
    /\ inflight = <<>>
    /\ user = Null
    /\ connection = NewDatabaseConnection

\* SpecDatabase: the methods of Database called in any order, awaited or
\* not, the driver calling back when it likes
NextDatabase ==
    \/ Connect
    \/ \E h \in 1..MaxDbCalls : Opened(h)
    \/ Close
    \/ \E i \in 1..MaxDbCalls : Closed(i)
    \/ \E method \in {"run", "get", "all"} : Run(method)
    \/ RunSequentially

SpecDatabase == InitDatabase /\ [][NextDatabase]_vars


\* const User = Basie.wrap<_User>()(_User, "users"), after Basie.sqlite(db)
InitWrapped ==
    /\ InitSqlite
    /\ InitEngine
    /\ stack = <<>>
    /\ calls = 0
    /\ pc = "building"
    /\ outcome = Ok
    /\ sent = <<>>
    /\ user = wrap("users")

\* SpecWrapped: query methods reached through the proxy, up to MaxAccesses
\* times, what they return used further in any interleaving
NextWrapped ==
    \/ ProxyGet
    \/ \E i \in 1..MaxAccesses : Continue(i)
    \/ ProxyGetStatic

SpecWrapped == InitWrapped /\ [][NextWrapped]_vars

-----------------------------------------------------------------------------
(* Properties                                                              *)

\* the query whose terminal method ran, and the statement it sent
Query == stack[1].b
Stmt == sent[Len(sent)]

\* a terminal method among `methods` returned
Done(methods) == pc = "done" /\ outcome.status = "ok" /\ outcome.call \in methods

SelectMethods == {"get", "count", "max"}

\* the number of placeholders of a text
Placeholders(sql) == Len(SelectSeq(sql, LAMBDA p : p = "?"))

\* the text with its i-th placeholder replaced by the i-th value, as the
\* driver binds them
RECURSIVE Bind(_, _)
Bind(sql, args) ==
    IF sql = <<>> THEN <<>>
    ELSE IF Head(sql) = "?"
         THEN <<ToString(Head(args))>> \o Bind(Tail(sql), Tail(args))
         ELSE <<Head(sql)>> \o Bind(Tail(sql), args)

NoBlanks(sql) == SelectSeq(sql, LAMBDA p : p # " ")

\* xs[1], sep, xs[2], sep, ... as one sequence
RECURSIVE Separated(_, _)
Separated(xs, sep) ==
    IF xs = <<>> THEN <<>>
    ELSE IF Len(xs) = 1 THEN <<xs[1]>>
    ELSE <<xs[1], sep>> \o Separated(Tail(xs), sep)

\* The statement a builder stands for, every value written where the call
\* that bound it put it, as lexemes without blanks.
RECURSIVE IntendedList(_, _)
IntendedClause(w) ==
    CASE w.type = "basic"  -> <<w.column, w.operator, ToString(w.value)>>
      [] w.type = "column" -> <<w.first, w.operator, w.second>>
      [] w.type = "raw"    -> NoBlanks(Bind(w.sql, w.values))
      [] w.type = "null"   -> IF w.negate THEN <<w.column, "IS", "NOT", "NULL">>
                              ELSE <<w.column, "IS", "NULL">>
      [] w.type = "nested" -> <<"(">> \o IntendedList(w.builder.wheres, 1) \o <<")">>

IntendedList(ws, i) ==
    IF i > Len(ws) THEN <<>>
    ELSE (IF i = 1 THEN <<>> ELSE <<ws[i].boolean>>)
         \o IntendedClause(ws[i]) \o IntendedList(ws, i + 1)

IntendedWhere(b) ==
    IF b.wheres = <<>> THEN <<>> ELSE <<"WHERE">> \o IntendedList(b.wheres, 1)

RECURSIVE IntendedJoins(_)
IntendedJoins(js) ==
    IF js = <<>> THEN <<>>
    ELSE <<Head(js).type, "JOIN", Head(js).joiningOn, "ON">>
         \o IntendedList(Head(js).wheres, 1) \o IntendedJoins(Tail(js))

IntendedSelect(b) ==
    (IF b.aggregateFunction # Null
     THEN <<"SELECT", b.aggregateFunction, "(">>
          \o (IF b.isDistinct /\ b.columns # <<"*">> THEN <<"DISTINCT">> ELSE <<>>)
          \o Separated(b.columns, ",") \o <<")", "AS", "aggregate">>
     ELSE <<"SELECT">> \o (IF b.isDistinct THEN <<"DISTINCT">> ELSE <<>>)
          \o Separated(b.columns, ","))
    \o <<"FROM", b.table>>
    \o IntendedJoins(b.joins)
    \o IntendedWhere(b)
    \o (IF b.groups = <<>> THEN <<>> ELSE <<"GROUP", "BY">> \o Separated(b.groups, ","))
    \o (IF b.orders = <<>> THEN <<>>
        ELSE <<"ORDER", "BY">>
             \o Flatten(Separated([i \in 1..Len(b.orders) |->
                    <<b.orders[i].column, b.orders[i].direction>>], <<",">>)))
    \o (IF b.limitCount = Num(-1) THEN <<>> ELSE <<"LIMIT", ToString(b.limitCount)>>)

IntendedInsert(b, rows) ==
    LET keys == SelectSeq(Keys(rows[1]), LAMBDA k : CellType(k) # "function")
        tuple(r) == <<"(">> \o Separated([i \in 1..Len(keys) |->
                        ToString(Get(rows[r], keys[i]))], ",") \o <<")">>
    IN  <<"INSERT", "INTO", b.table, "(">> \o Separated(keys, ",") \o <<")", "VALUES">>
        \o Flatten(Separated([r \in 1..Len(rows) |-> tuple(r)], <<",">>))

IntendedUpdate(b, values) ==
    <<"UPDATE", b.table>> \o IntendedJoins(b.joins) \o <<"SET">>
    \o Flatten(Separated([i \in 1..Len(values) |->
            <<values[i][1], "=", ToString(values[i][2])>>], <<",">>))
    \o IntendedWhere(b)

IntendedDelete(b) == <<"DELETE", "FROM", b.table>> \o IntendedWhere(b)

Intended ==
    CASE outcome.call \in SelectMethods -> IntendedSelect(Query)
      [] outcome.call = "insert"        -> IntendedInsert(Query, outcome.arg)
      [] outcome.call = "update"        -> IntendedUpdate(Query, outcome.arg)
      [] outcome.call = "delete"        -> IntendedDelete(Query)

\* C1: in every statement compiled from a builder (select, insert, update,
\* delete) the text has exactly as many placeholders as args has elements,
\* and binding the i-th placeholder to the i-th element of args gives the
\* statement with every value at the place of the call that bound it.
C1_PlaceholdersMatchArgs ==
    Done(SelectMethods \cup {"insert", "update", "delete"}) =>
        /\ Placeholders(Stmt.sql) = Len(Stmt.args)
        /\ NoBlanks(Bind(Stmt.sql, Stmt.args)) = Intended

\* an update over a join whose ON list binds a value, with a where clause:
\* placeholders in the join, in SET and in WHERE
C1_Witness ==
    /\ Done({"update"})
    /\ Len(Query.joins) = 1
    /\ BoundInJoins(Query.joins) = 1
    /\ BoundIn(Query.wheres) = 1
    /\ Len(Stmt.args) = 3

\* the texts of the components, one blank between two of them
RECURSIVE SpacedText(_)
SpacedText(cs) ==
    IF cs = <<>> THEN ""
    ELSE IF Len(cs) = 1 THEN Str(cs[1].sql)
    ELSE Str(cs[1].sql) \o " " \o SpacedText(Tail(cs))

\* the args of the components, one after the other
RECURSIVE ArgsInOrder(_)
ArgsInOrder(cs) ==
    IF cs = <<>> THEN <<>> ELSE Head(cs).args \o ArgsInOrder(Tail(cs))

\* aggregate-or-columns, FROM, JOINs, WHERE, GROUP BY, ORDER BY, LIMIT
SelectOrder(b) ==
    << IF b.aggregateFunction # Null THEN compileAggregate(b) ELSE compileColumns(b),
       compileFrom(b), compileJoins(b), compileWheres(b), compileGroups(b),
       compileOrders(b), compileLimit(b) >>

\* C2: the text of a compiled select is its components in the order
\* aggregate-or-columns, FROM, JOINs, WHERE, GROUP BY, ORDER BY, LIMIT, those
\* without content skipped and one blank between two present ones, and its
\* args are the components' args in that order.
C2_SelectComponentOrder ==
    Done(SelectMethods) =>
        /\ Str(Stmt.sql) = SpacedText(SelectSeq(SelectOrder(Query), LAMBDA c : c.sql # <<>>))
        /\ Stmt.args = ArgsInOrder(SelectOrder(Query))

\* a select with a join, a where and a limit, and no GROUP BY or ORDER BY
C2_Witness ==
    /\ Done({"get"})
    /\ Str(Stmt.sql) = "SELECT * FROM test INNER JOIN foo ON test.a = foo.b WHERE a = ? LIMIT ?"
    /\ Stmt.args = <<1, Num(2)>>

\* the text of one clause that is not a group
ClauseText(w) ==
    CASE w.type = "basic"  -> w.column \o " " \o w.operator \o " ?"
      [] w.type = "column" -> w.first \o " " \o w.operator \o " " \o w.second
      [] w.type = "raw"    -> Str(w.sql)
      [] w.type = "null"   -> w.column \o (IF w.negate THEN " IS NOT NULL" ELSE " IS NULL")

\* the clauses of a list from the i-th on: the first without a connector,
\* each later one behind the connector of its call; a group in parentheses
RECURSIVE ListText(_, _)
ListText(ws, i) ==
    IF i > Len(ws) THEN ""
    ELSE (IF i = 1 THEN "" ELSE " " \o ws[i].boolean \o " ")
         \o (IF ws[i].type = "nested"
             THEN "(" \o ListText(ws[i].builder.wheres, 1) \o ")"
             ELSE ClauseText(ws[i]))
         \o ListText(ws, i + 1)

RECURSIVE JoinsText(_)
JoinsText(js) ==
    IF js = <<>> THEN ""
    ELSE " " \o Head(js).type \o " JOIN " \o Head(js).joiningOn \o " ON "
         \o ListText(Head(js).wheres, 1) \o JoinsText(Tail(js))

\* C3: in a compiled select every condition list (the WHERE list, the ON
\* list of a join, a nested group) renders its first clause without a
\* connector and each later clause behind the connector of the call that
\* added it, in call order; a query without where clauses has no WHERE
\* fragment, and without any clause no args.
C3_ConnectorsInCallOrder ==
    Done({"get"}) =>
        /\ Str(Stmt.sql) = "SELECT * FROM test" \o JoinsText(Query.joins)
                \o (IF Query.wheres = <<>> THEN ""
                    ELSE " WHERE " \o ListText(Query.wheres, 1))
        /\ (Query.wheres = <<>> /\ Query.joins = <<>>) => Stmt.args = <<>>

\* where("a", 1).orWhere("b", 2).orWhereColumn("a", "<", "b").where("a", 3)
C3_Witness ==
    /\ Done({"get"})
    /\ Str(Stmt.sql) = "SELECT * FROM test WHERE a = ? OR b = ? OR a < b AND a = ?"
    /\ Stmt.args = <<1, 2, 3>>

\* every condition list of a query: the WHERE list, the ON lists, and the
\* lists of the groups nested in them
RECURSIVE ListsIn(_)
ListsIn(ws) ==
    {ws} \cup UNION { ListsIn(ws[i].builder.wheres) :
                        i \in { j \in 1..Len(ws) : ws[j].type = "nested" } }

AllLists(b) ==
    ListsIn(b.wheres) \cup UNION { ListsIn(b.joins[i].wheres) : i \in 1..Len(b.joins) }

\* what a list compiles to on its own
CondText(ws) == Str(compileConditions([wheres |-> ws]).sql)
CondArgs(ws) == compileConditions([wheres |-> ws]).args

\* C4: a nested group renders as "(" + the body its own list compiles to +
\* ")", behind the connector of the group unless the group comes first; the
\* body is the same whatever that connector is, at any depth, and the args
\* of the group stand at the place of the group.
C4_NestedGroup ==
    Done({"get"}) =>
        /\ \A ws \in AllLists(Query) : \A i \in 1..Len(ws) :
              ws[i].type = "nested" =>
                /\ CondText(SubSeq(ws, 1, i)) =
                      CondText(SubSeq(ws, 1, i - 1))
                      \o (IF i = 1 THEN "" ELSE " " \o ws[i].boolean \o " ")
                      \o "(" \o CondText(ws[i].builder.wheres) \o ")"
                /\ CondArgs(SubSeq(ws, 1, i)) =
                      CondArgs(SubSeq(ws, 1, i - 1)) \o CondArgs(ws[i].builder.wheres)
        /\ Stmt.args = ArgsInOrder([i \in 1..Len(Query.joins) |->
                            [args |-> CondArgs(Query.joins[i].wheres)]])
                        \o CondArgs(Query.wheres)
        /\ (Query.wheres # <<>> /\ Query.joins = <<>>) =>
              Str(Stmt.sql) = "SELECT * FROM test WHERE " \o CondText(Query.wheres)

\* where("a", 1).orWhere(n => n.where("a", 2).where("a", 3))
C4_Witness ==
    /\ Done({"get"})
    /\ Str(Stmt.sql) = "SELECT * FROM test WHERE a = ? OR (a = ? AND a = ?)"
    /\ Stmt.args = <<1, 2, 3>>

\* the position of an entry in the log of the connection, 0 if not there
LogIndex(e) ==
    IF \E i \in 1..Len(connection.log) : connection.log[i] = e
    THEN CHOOSE i \in 1..Len(connection.log) : connection.log[i] = e
    ELSE 0

\* C5: between the INSERT of an insertAndGetId call and its read of
\* last_insert_rowid() the connection runs no INSERT of another call, and
\* the call returns the id of the row it inserted.
C5_UninterruptedPair ==
    \A c \in InFlight :
        /\ LogIndex(<<c, "all">>) > 0 =>
              \A k \in LogIndex(<<c, "run">>) + 1 .. LogIndex(<<c, "all">>) - 1 :
                  connection.log[k][2] # "run"
        /\ inflight[c].pc = "done" => inflight[c].id = inflight[c].row

TerminalMethods ==
    { "get", "all", "first", "find", "value", "pluck", "exists", "count", "sum",
      "avg", "min", "max", "insert", "insertAndGetId", "update", "delete" }

C7_LimitCount ==
    [][ /\ (outcome'.call = "limit" /\ calls' = calls + 1) =>
              IF LessThan(outcome'.arg[1], Num(1))
              THEN /\ outcome'.status = "throw"
                   /\ outcome'.error = LimitError
                   /\ \A i \in 1..Len(stack') : stack'[i] = stack[i]
              ELSE /\ outcome'.status = "ok"
                   /\ stack'[Len(stack')].b.limitCount = outcome'.arg[1]
        /\ \A i \in 1..Len(stack') :
              LET limitCount == stack'[i].b.limitCount
              IN  limitCount = Num(-1) \/ (IsInteger(limitCount) /\ limitCount.n >= 1)
        /\ (pc' = "done" /\ outcome'.status = "ok" /\ outcome'.call \in SelectMethods) =>
              LET sql  == sent'[Len(sent')].sql
                  args == sent'[Len(sent')].args
              IN  IF stack'[1].b.limitCount = Num(-1)
                  THEN \A i \in 1..Len(sql) : sql[i] # "LIMIT"
                  ELSE /\ SubSeq(sql, Len(sql) - 3, Len(sql)) = <<" ", "LIMIT", " ", "?">>
                       /\ args[Len(args)] = stack'[1].b.limitCount ]_vars

\* "a = ?, b = ?" for the keys of the partial from the i-th on
RECURSIVE SetText(_, _)
SetText(values, i) ==
    IF i > Len(values) THEN ""
    ELSE (IF i = 1 THEN "" ELSE ", ") \o values[i][1] \o " = ?" \o SetText(values, i + 1)

WhereText(b) == IF b.wheres = <<>> THEN "" ELSE " WHERE " \o ListText(b.wheres, 1)

JoinArgs(b) ==
    ArgsInOrder([i \in 1..Len(b.joins) |-> [args |-> CondArgs(b.joins[i].wheres)]])

\* C8: compileUpdate renders `UPDATE {table}`, the join clauses if any,
\* `SET col = ?, ...` with an entry per key of the partial in key order, and
\* the WHERE clause, a single space between one part and the next; its args
\* are the ON args of the joins, the SET values, the WHERE args.
C8_UpdateText ==
    Done({"update"}) =>
        /\ Str(Stmt.sql) = "UPDATE test" \o JoinsText(Query.joins)
                           \o " SET " \o SetText(outcome.arg, 1) \o WhereText(Query)
        /\ Stmt.args = JoinArgs(Query)
                       \o [i \in 1..Len(outcome.arg) |-> outcome.arg[i][2]]
                       \o CondArgs(Query.wheres)

\* C9: compileDelete yields exactly `DELETE FROM {table}` for a query without
\* where clauses and `DELETE FROM {table} WHERE ...` with the WHERE args
\* otherwise.
C9_DeleteText ==
    Done({"delete"}) =>
        /\ Str(Stmt.sql) = "DELETE FROM test" \o WhereText(Query)
        /\ Stmt.args = CondArgs(Query.wheres)

\* "(?,?), (?,?)": n tuples of c placeholders from the r-th on
RECURSIVE TuplesText(_, _, _)
TuplesText(r, n, c) ==
    IF r > n THEN ""
    ELSE (IF r = 1 THEN "" ELSE ", ")
         \o "(" \o Str(ArrayJoin([i \in 1..c |-> <<"?">>], <<",">>)) \o ")"
         \o TuplesText(r + 1, n, c)

\* what C10 says of an insert of `rows` with the column list `cols`
InsertIs(rows, cols) ==
    /\ Str(Stmt.sql) = "INSERT INTO " \o Query.table \o " ("
                       \o Str(ArrayJoin([i \in 1..Len(cols) |-> <<cols[i]>>], <<",">>))
                       \o ") VALUES " \o TuplesText(1, Len(rows), Len(cols))
    /\ Len(Stmt.args) = Len(rows) * Len(cols)
    /\ \A r \in 1..Len(rows) : \A i \in 1..Len(cols) :
          Stmt.args[(r - 1) * Len(cols) + i] = Get(rows[r], cols[i])

\* C10 as stated: compileInsert for R >= 1 rows takes the column list from
\* the keys of the first row, emits a tuple of `?` per row, one `?` per
\* column, the tuples joined by `, `, and its args are the row values row
\* by row in column order: R x (number of columns) of them.
C10_InsertAllKeys ==
    Done({"insert", "insertAndGetId"}) => InsertIs(outcome.arg, Keys(outcome.arg[1]))

\* C10, amended: the column list is the keys of the first row whose value
\* in the first row is not a function, in key order; the tuples and the
\* args are as stated, over these columns.
C10_InsertColumns ==
    Done({"insert", "insertAndGetId"}) =>
        InsertIs(outcome.arg,
                 SelectSeq(Keys(outcome.arg[1]),
                           LAMBDA k : TypeOf(outcome.arg[1], k) # "function"))

\* insert({a, phones, b}, {phones, b, a}) of two models into users
C10_Witness ==
    /\ Done({"insert"})
    /\ Len(outcome.arg) = 2
    /\ Keys(outcome.arg[1]) = <<"a", "phones", "b">>
    /\ Keys(outcome.arg[2]) = <<"phones", "b", "a">>
    /\ Str(Stmt.sql) = "INSERT INTO users (a,b) VALUES (?,?), (?,?)"
    /\ Stmt.args = <<11, 12, 21, 22>>

\* "a, b AS c": the columns from the i-th on
RECURSIVE ColumnsText(_, _)
ColumnsText(cs, i) ==
    IF i > Len(cs) THEN ""
    ELSE (IF i = 1 THEN "" ELSE ", ") \o cs[i] \o ColumnsText(cs, i + 1)

\* the position of the first piece FROM of a statement
FromAt(sql) == CHOOSE i \in 1..Len(sql) : sql[i] = "FROM" /\ \A j \in 1..(i - 1) : sql[j] # "FROM"

\* C11: a compiled select renders exactly one of the aggregate clause and
\* the column clause.  With aggregateFunction set it starts with
\* `SELECT FN(columns) AS aggregate`, DISTINCT inside the parentheses only
\* when isDistinct is set and the columns are not `*`; otherwise it starts
\* with `SELECT [DISTINCT ]columns`.
C11_AggregateOrColumns ==
    Done(SelectMethods) =>
        /\ Cardinality({ i \in 1..Len(Stmt.sql) : Stmt.sql[i] = "SELECT" }) = 1
        /\ Str(SubSeq(Stmt.sql, 1, FromAt(Stmt.sql) - 1)) =
              (IF Query.aggregateFunction # Null
               THEN "SELECT " \o Query.aggregateFunction \o "("
                    \o (IF Query.isDistinct /\ Query.columns # <<"*">> THEN "DISTINCT " ELSE "")
                    \o ColumnsText(Query.columns, 1) \o ") AS aggregate "
               ELSE "SELECT " \o (IF Query.isDistinct THEN "DISTINCT " ELSE "")
                    \o ColumnsText(Query.columns, 1) \o " ")

\* select("a", "b AS c").distinct().count()
C11_Witness ==
    /\ Done({"count"})
    /\ Str(Stmt.sql) = "SELECT COUNT(DISTINCT a, b AS c) AS aggregate FROM test"

\* builder `after` is builder `before` with one join descriptor more, at the
\* end: of the kind given, on table t, with the one ON clause `f o s`
AppendsJoin(after, before, kind, t, f, o, s) ==
    /\ Len(after.joins) = Len(before.joins) + 1
    /\ SubSeq(after.joins, 1, Len(before.joins)) = before.joins
    /\ [after EXCEPT !.joins = before.joins] = before
    /\ LET j == after.joins[Len(after.joins)]
       IN  /\ j.type = kind
           /\ j.joiningOn = t
           /\ Len(j.wheres) = 1
           /\ j.wheres[1].type = "column"
           /\ j.wheres[1].first = f
           /\ j.wheres[1].operator = o
           /\ j.wheres[1].second = s

\* C12: join, leftJoin and rightJoin each append exactly one join descriptor
\* at the end of joins, of kind INNER, LEFT and RIGHT, the explicit form
\* with a single column-to-column ON clause; the compiler renders the joins
\* as `{KIND} JOIN {table} ON {ON body}` in the order of joins, a single
\* space between them.
C12_JoinsInOrder ==
    /\ AppendsJoin(join(Top, "foo", "test.a", "=", "foo.b", "INNER"), Top,
                   "INNER", "foo", "test.a", "=", "foo.b")
    /\ AppendsJoin(leftJoin(Top, "foo", "test.a", "=", "foo.b"), Top,
                   "LEFT", "foo", "test.a", "=", "foo.b")
    /\ AppendsJoin(rightJoin(Top, "bar", "test.b", "<", "bar.a"), Top,
                   "RIGHT", "bar", "test.b", "<", "bar.a")
    /\ Done({"get"}) => Str(Stmt.sql) = "SELECT * FROM test" \o JoinsText(Query.joins)

\* rightJoin(...).join(...).leftJoin(...)
C12_Witness ==
    /\ Done({"get"})
    /\ Str(Stmt.sql) = "SELECT * FROM test RIGHT JOIN bar ON test.b < bar.a"
                       \o " INNER JOIN foo ON test.a = foo.b"
                       \o " LEFT JOIN foo ON test.a = foo.b"

\* what the pool was last asked to run
Request == connection.log[Len(connection.log)]

\* the text of pieces ps from the i-th on, its placeholders numbered from k
RECURSIVE Numbered(_, _, _)
Numbered(ps, i, k) ==
    IF i > Len(ps) THEN ""
    ELSE IF ps[i] = "?"
         THEN "$" \o ToString(k) \o Numbered(ps, i + 1, k + 1)
         ELSE ps[i] \o Numbered(ps, i + 1, k)

\* C13: the PostgresEngine replaces the placeholders of the compiled SQL,
\* from left to right, by $1, $2, ... $k and hands the args to the pool
\* unchanged and in the same order, so that $i is bound to the i-th arg.
C13_NumberedPlaceholders ==
    Done(TerminalMethods) =>
        /\ Request.text = Numbered(Stmt.sql \o (IF Stmt.method = "insertAndGetId"
                                                THEN <<" RETURNING id">> ELSE <<>>), 1, 1)
        /\ Request.values = Stmt.args
        /\ Placeholders(Stmt.sql) = Len(Request.values)

C13_Witness ==
    /\ Done({"update"})
    /\ Request.text = "UPDATE \"test\" SET b = $1, a = $2 WHERE \"a\" = $3 AND \"a\" = $4"
    /\ Request.values = <<8, 7, 1, 2>>

\* the column names of a list of clauses, nested ones included
RECURSIVE WhereColumns(_)
WhereColumns(ws) ==
    UNION { CASE ws[i].type = "basic"  -> {ws[i].column}
              [] ws[i].type = "column" -> {ws[i].first, ws[i].second}
              [] ws[i].type = "null"   -> {ws[i].column}
              [] ws[i].type = "nested" -> WhereColumns(ws[i].builder.wheres)
              [] ws[i].type = "raw"    -> {}
            : i \in 1..Len(ws) }

JoinColumns(b) == UNION { WhereColumns(b.joins[i].wheres) : i \in 1..Len(b.joins) }
JoinTables(b) == { b.joins[i].joiningOn : i \in 1..Len(b.joins) }
Range(s) == { s[i] : i \in 1..Len(s) }

\* the column names and the table names that the statement of the terminal
\* method that returned is made of
ColumnNames ==
    CASE outcome.call \in {"insert", "insertAndGetId"} ->
             { k \in Range(Keys(outcome.arg[1])) : TypeOf(outcome.arg[1], k) # "function" }
      [] outcome.call = "update" ->
             Range(Keys(outcome.arg)) \cup JoinColumns(Query) \cup WhereColumns(Query.wheres)
      [] outcome.call = "delete" -> WhereColumns(Query.wheres)
      [] OTHER ->
             Range(Query.columns) \cup JoinColumns(Query) \cup WhereColumns(Query.wheres)
             \cup Range(Query.groups) \cup { Query.orders[i].column : i \in 1..Len(Query.orders) }

TableNames ==
    IF outcome.call \in {"insert", "insertAndGetId", "delete"}
    THEN {Query.table}
    ELSE {Query.table} \cup JoinTables(Query)

\* C14: with the compiler of the PostgresEngine every table name and every
\* column name of a compiled SELECT, INSERT, UPDATE or DELETE is in the text
\* as the output of escapeTable or escapeColumn for it, never as it was given:
\* select and aggregate columns, where and on columns, group and order
\* columns, insert columns, update SET columns, and the tables.
C14_NamesEscaped ==
    Done(TerminalMethods) =>
        /\ \A n \in ColumnNames :
              /\ PostgresEscapeColumn(n) \in Range(Stmt.sql)
              /\ n \in Range(Stmt.sql) => n = PostgresEscapeColumn(n)
        /\ \A t \in TableNames :
              /\ PostgresEscapeTable(t) \in Range(Stmt.sql)
              /\ t \notin Range(Stmt.sql)

\* C15: a terminal method whose statement is compiled (compileSelect,
\* compileInsert, compileUpdate, compileDelete) from a builder whose table
\* was never set fails with an error: it does not return, and no SQL text
\* goes to the engine.
C15_UnsetTableFails ==
    (pc = "done" /\ Query.table = "undefined") =>
        /\ outcome.status # "ok"
        /\ sent = <<>>

\* C16: whenever the driver reports an error for a statement issued by
\* query, get or insertAndGetId (the INSERT of insertAndGetId included) the
\* promise returned to the caller is eventually rejected with that error;
\* it does not stay pending.
C16_FailurePassedThrough ==
    \A c \in InFlight : inflight[c].err ~> (inflight[c].pc = "rejected")

\* the invocations of the accessor of relation r, and the promises of its queries
Invocations(r) == { i \in 1..Len(user.returned) : user.returned[i][1] = r }
QueriesOf(r) == { p \in 1..Len(user.promises) : user.promises[p].call = r }

\* C17: a relation accessor of an instance (hasOne, belongsTo, hasMany) is
\* memoized: however often it is invoked, also again before its first query
\* was answered, exactly one query goes to the engine, one statement of its
\* own, and every invocation returns the same promise, hence the same result.
C17_AccessorMemoized ==
    \A r \in Relations :
        Invocations(r) # {} =>
            /\ Cardinality(QueriesOf(r)) = 1
            /\ \A p \in QueriesOf(r) :
                  /\ sent[user.promises[p].stmt] =
                        Statement("get", relationQuery([user EXCEPT !.id = user.promises[p].id], r))
                  /\ \A i \in Invocations(r) : user.returned[i][2] = p
            /\ Cardinality({ user.promises[p].stmt : p \in 1..Len(user.promises) })
                  = Len(sent)

\* phones() twice before the engine answered, and once more after it did
C17_Witness ==
    /\ user.returned = << <<"phones", 1>>, <<"phones", 1>>, <<"phones", 1>> >>
    /\ user.promises[1].state = "resolved"
    /\ Len(sent) = 1

\* the statement of promise p
StatementOf(o, p) == sent'[o.promises[p].stmt]

\* the last n pieces of a text
Ending(sql, n) == Str(SubSeq(sql, Len(sql) - n + 1, Len(sql)))

NoRepeat(s) == \A i, j \in 1..Len(s) : s[i] = s[j] => i = j

\* C19: after any sequence of groupBy calls groups holds each name at most
\* once and exactly the names passed to the calls (every call leaves the
\* names there were and the names it was given, none twice); GROUP BY lists
\* them in the order of the list, separated by ", ", and is left out when the
\* list is empty.
C19_GroupsAreASet ==
    /\ NoRepeat(Top.groups)
    /\ \A g \in GroupChoices :
          LET after == groupBy(Top, g)
          IN  /\ NoRepeat(after.groups)
              /\ Range(after.groups) = Range(Top.groups) \cup Range(g)
              /\ [after EXCEPT !.groups = Top.groups] = Top
    /\ Done({"get"}) =>
          Str(Stmt.sql) = "SELECT " \o ColumnsText(Query.columns, 1) \o " FROM test"
                          \o (IF Query.groups = <<>> THEN ""
                              ELSE " GROUP BY " \o ColumnsText(Query.groups, 1))

\* groupBy("a", "b").groupBy("c", "a", "c").get()
C19_Witness ==
    /\ Done({"get"})
    /\ Query.groups = <<"c", "a", "b">>
    /\ Str(Stmt.sql) = "SELECT * FROM test GROUP BY c, a, b"

\* builder b with clause w appended to its wheres and nothing else changed
WithWhere(b, w) == [b EXCEPT !.wheres = Append(@, w)]

\* builder b, the connector of its last clause OR
WithOr(b) == [b EXCEPT !.wheres[Len(b.wheres)].boolean = "OR"]

BasicWhere(column, operator, value, boolean) ==
    [ type |-> "basic", column |-> column, operator |-> operator, value |-> value,
      boolean |-> boolean ]

\* C20: where(column, value) appends a basic clause with operator = and
\* connector AND; where(column, operator, value) appends a basic clause with
\* that operator, its connector AND unless one is passed; where(callback) is
\* whereNested(callback); every orWhere method appends the clause of its
\* where counterpart with the connector OR.
C20_WhereOverloads ==
    LET b == Top
        v == NextValue
    IN  /\ where(b, <<"a", v>>) = WithWhere(b, BasicWhere("a", "=", v, "AND"))
        /\ \A op \in {"=", "<", "LIKE"} :
              /\ where(b, <<"a", op, v>>) = WithWhere(b, BasicWhere("a", op, v, "AND"))
              /\ \A boolean \in Booleans :
                    where(b, <<"a", op, v, boolean>>) = WithWhere(b, BasicWhere("a", op, v, boolean))
              /\ orWhere(b, <<"a", op, v>>) = WithOr(where(b, <<"a", op, v>>))
        /\ orWhere(b, <<"a", v>>) = WithOr(where(b, <<"a", v>>))
        /\ orWhereColumn(b, "a", "<", "b") = WithOr(whereColumn(b, "a", "<", "b", "AND"))
        /\ orWhereRaw(b, RawLike, <<v>>) = WithOr(whereRaw(b, RawLike, <<v>>, "AND"))
        /\ orWhereNull(b, "a") = WithOr(whereNull(b, "a", "AND", FALSE))
        /\ orWhereNotNull(b, "a") = WithOr(whereNotNull(b, "a"))
        /\ \A given \in Booleans :
              /\ NestedBoolean("where", given) = NestedBoolean("whereNested", "AND")
              /\ NestedBoolean("orWhere", given) = "OR"
              /\ NestedBoolean("orWhereNested", given) = "OR"
        /\ \A k \in 2..Len(stack) :
              stack[k].via = "whereNested" =>
                  /\ stack[k].boolean \in Booleans
                  /\ stack[k].b.wheres = <<>> => stack[k].b = whereNestedBuilder(stack[k - 1].b)

\* where("a", 1).orWhere("a", ">", 2).get()
C20_Witness ==
    /\ Done({"get"})
    /\ Query.wheres = << BasicWhere("a", "=", 1, "AND"), BasicWhere("a", ">", 2, "OR") >>

-----------------------------------------------------------------------------
(* C21: the builder of a nested callback                                   *)

\* the builder a frame of the stack works on, and the frame below the top
BuilderAt(st, i) == st[i].b
Parent == BuilderAt(stack, Len(stack) - 1)

\* a builder with nothing accumulated: what the field initialisers leave
Unused(b) ==
    /\ b.wheres = <<>>
    /\ b.joins = <<>>
    /\ b.groups = <<>>
    /\ b.orders = <<>>
    /\ b.columns = <<"*">>
    /\ b.aggregateFunction = Null
    /\ b.limitCount = Num(-1)

\* the Nested clause that wraps the builder of a returning callback
NestedOf(f) == [ type |-> "nested", builder |-> f.b, boolean |-> f.boolean ]

\* C21: the builder handed to a whereNested callback, and the join
\* sub-builder handed to a nested on callback, shares only the table with
\* its parent: when the callback is entered it has empty wheres, joins,
\* groups and orders, the default columns, no aggregate and no limit, and
\* the table of its parent; while the callback runs no builder below it
\* changes, so a condition added to it is in no parent's wheres; when the
\* callback returns the parent gains exactly one clause, the Nested clause
\* holding that builder, and nothing else of the parent changes; when the
\* callback throws instead, the builders it leaves behind are unchanged.
C21_NestedBuilderFresh ==
    [][ /\ ( /\ Len(stack') = Len(stack) + 1
             /\ stack'[Len(stack')].via = "whereNested" )
           => /\ Unused(BuilderAt(stack', Len(stack')))
              /\ BuilderAt(stack', Len(stack')).table = Top.table
              /\ SubSeq(stack', 1, Len(stack)) = stack
        /\ Len(stack') = Len(stack)
           => \A i \in 1..(Len(stack) - 1) : stack'[i] = stack[i]
        /\ ( /\ Len(stack') < Len(stack)
             /\ outcome'.status = "throw" )
           => stack' = SubSeq(stack, 1, Len(stack'))
        /\ ( /\ Len(stack') = Len(stack) - 1
             /\ outcome'.status = "ok"
             /\ stack[Len(stack)].via = "whereNested" )
           => /\ BuilderAt(stack', Len(stack')) =
                    [Parent EXCEPT !.wheres = Append(@, NestedOf(stack[Len(stack)]))]
              /\ \A i \in 1..(Len(stack) - 2) : stack'[i] = stack[i]
      ]_vars

\* a query that was ordered before its nested callback added a condition:
\* the condition is inside the Nested clause only, the order on the parent
NestedWhereDone ==
    /\ Len(Top.orders) = 1
    /\ Len(Top.wheres) = 1
    /\ Top.wheres[1].type = "nested"
    /\ Len(Top.wheres[1].builder.wheres) = 1
    /\ Top.wheres[1].builder.wheres[1].type = "basic"
    /\ Top.wheres[1].builder.orders = <<>>
    /\ Top.wheres[1].builder.table = "test"

\* a join whose nested on callback added a condition to its sub-builder
NestedOnDone ==
    /\ Len(Top.joins) = 1
    /\ Len(Top.joins[1].wheres) = 1
    /\ Top.joins[1].wheres[1].type = "nested"
    /\ Top.joins[1].wheres[1].builder.cls = "JoinClause"
    /\ Len(Top.joins[1].wheres[1].builder.wheres) = 1
    /\ Top.joins[1].wheres[1].builder.table = "foo"

C21_Witness ==
    /\ Len(stack) = 1
    /\ calls = MaxCalls
    /\ NestedWhereDone \/ NestedOnDone

-----------------------------------------------------------------------------
(* C22: deleted objects are poisoned                                       *)

PoisonedUses == {"save", "destroy", "get id", "get name", "set name", "get roles"}

\* the promise of a destroy() resolves in this step
DestroyCompletes ==
    \E p \in DOMAIN user.promises :
        /\ user.promises[p].call = "destroy"
        /\ user.promises[p].state = "pending"
        /\ user'.promises[p].state = "resolved"

\* C22: once destroy() has completed on a persisted instance of a Based()
\* model the instance is poisoned, and every later save(), destroy(), read
\* of id, read or write of a @field and read of a @children property throws
\* "This object was deleted and can no longer be used." and changes
\* nothing; destroy() on an instance that was never saved issues no query
\* and does not poison the instance.
C22_PoisonedThrows ==
    [][ /\ DestroyCompletes => user'.__poisoned
        /\ ( /\ calls' = calls + 1
             /\ user.__poisoned
             /\ outcome'.call \in PoisonedUses )
           => /\ outcome' = Threw(outcome'.call, PoisonError)
              /\ user' = user
              /\ connection' = connection
        /\ ( /\ calls' = calls + 1
             /\ ~user.__poisoned
             /\ user.__props.id = 0
             /\ outcome'.call = "destroy" )
           => /\ outcome'.status = "ok"
              /\ user' = user
              /\ connection' = connection
      ]_vars

\* what the code does keep: a poisoned instance refuses every such use with
\* that error, by throwing it or by rejecting the promise it returns
PoisonedRefuses ==
    [][ ( /\ calls' = calls + 1
          /\ user.__poisoned
          /\ outcome'.call \in PoisonedUses )
        => /\ outcome'.status \in {"throw", "reject"}
           /\ outcome'.error = PoisonError
           /\ user' = user
           /\ connection' = connection
      ]_vars

-----------------------------------------------------------------------------
(* C23: DatabaseConnection keeps track of the connection state             *)

\* the handles that the driver has opened and not closed
OpenHandles(db) == db.handles \ db.opening

NeedConnection == {"close", "run", "get", "all", "runSequentially"}

\* C23: connect() throws "Already connected." whenever a connection is
\* already open or being used (a handle of the driver exists); close(),
\* run(), get(), all() and runSequentially() throw "Not connected." whenever
\* no connection is open; and at most one handle of the driver exists at any
\* time.
C23_ConnectionState ==
    [][ /\ Cardinality(connection'.handles) <= 1
        /\ ( /\ calls' = calls + 1
             /\ outcome'.call = "connect"
             /\ connection.handles # {} )
           => /\ outcome' = Threw("connect", AlreadyConnected)
              /\ connection' = connection
        /\ ( /\ calls' = calls + 1
             /\ outcome'.call \in NeedConnection
             /\ OpenHandles(connection) = {} )
           => /\ outcome' = Threw(outcome'.call, NotConnected)
              /\ connection' = connection
      ]_vars

\* what the code does keep: without an open handle the five methods throw,
\* and with isConnected set connect() throws
GuardsThrow ==
    [][ /\ ( /\ calls' = calls + 1
             /\ outcome'.call \in NeedConnection
             /\ OpenHandles(connection) = {} )
           => /\ outcome' = Threw(outcome'.call, NotConnected)
              /\ connection' = connection
        /\ ( /\ calls' = calls + 1
             /\ outcome'.call = "connect"
             /\ connection.isConnected )
           => /\ outcome' = Threw("connect", AlreadyConnected)
              /\ connection' = connection
      ]_vars

-----------------------------------------------------------------------------
(* C24: save() called again before the insert of the first save() resolved *)

\* the promises of save() calls that found no id and whose INSERT the
\* engine has not answered yet
PendingInserts ==
    { p \in DOMAIN user.promises :
        user.promises[p].call = "insert" /\ user.promises[p].state = "pending" }

\* C24: when save() is invoked on an instance without id while the insert
\* of an earlier save() on it has not resolved, no second INSERT is issued:
\* at no time do two INSERT statements of the instance wait for an answer.
C24_OneInsert ==
    \A p, q \in PendingInserts :
        /\ p = q
        /\ sent[user.promises[p].stmt].method = "insertAndGetId"

-----------------------------------------------------------------------------
(* C25: condition bodies of nested groups and joins                        *)

\* text t occurs in text s; text s ends with text t
Contains(s, t) ==
    \E i \in 1..(Len(s) - Len(t) + 1) : SubSeq(s, i, i + Len(t) - 1) = t
EndsWith(s, t) ==
    Len(s) >= Len(t) /\ SubSeq(s, Len(s) - Len(t) + 1, Len(s)) = t

\* C25: the compiler emits no empty condition body: the text of a compiled
\* select holds no "()", and no "ON" that is followed by nothing (the end of
\* the text, or the blank that separates the next join or component).
C25_NoEmptyBody ==
    Done({"get"}) =>
        /\ ~Contains(Str(Stmt.sql), "()")
        /\ ~Contains(Str(Stmt.sql), " ON  ")
        /\ ~EndsWith(Str(Stmt.sql), " ON ")

-----------------------------------------------------------------------------
(* C26: the order of GROUP BY across groupBy calls                         *)

\* C26: GROUP BY keeps the order of the groupBy calls: whatever groupBy
\* calls were made, one more call leaves every column that an earlier call
\* added in front of every column that it adds itself, in groups and so in
\* the GROUP BY text, which lists groups in order.
C26_GroupsKeepCallOrder ==
    \A g \in GroupChoices :
        LET after == groupBy(Top, g)
        IN  /\ Str(compileGroups(after).sql) = "GROUP BY " \o ColumnsText(after.groups, 1)
            /\ \A old \in Range(Top.groups) : \A new \in Range(g) \ Range(Top.groups) :
                  IndexOf(after.groups, old) < IndexOf(after.groups, new)

\* what the code does keep: the columns of a call stand in front of the
\* columns of the calls before it
LaterCallsFirst ==
    \A g \in GroupChoices :
        LET after == groupBy(Top, g)
        IN  \A old \in Range(Top.groups) \ Range(g) : \A new \in Range(g) :
                IndexOf(after.groups, new) < IndexOf(after.groups, old)

-----------------------------------------------------------------------------
(* C27: a fresh builder for every access on a wrapped model                *)

\* the builder that calls cs leave when made one after the other on b
RECURSIVE ApplyAll(_, _)
ApplyAll(b, cs) ==
    IF cs = <<>> THEN b ELSE ApplyAll(Apply(b, Head(cs)), Tail(cs))

\* C27: every access of a query method on a wrapped model starts from a
\* fresh builder bound to the table of the model: the builder of an access
\* is what the calls made through that access, and no other call, leave on
\* QueryBuilder.table(tableName), and the statement that a terminal method
\* of the access sends is compiled from that alone.
C27_FreshBuilderPerAccess ==
    /\ \A i \in DOMAIN user.builders :
          user.builders[i] = ApplyAll(table(user.tableName), user.history[i])
    /\ outcome.call \in {"get", "count"} =>
          LET i == outcome.arg[1]
          IN  Stmt = Statement("get",
                  compileSelect(ApplyAll(table(user.tableName), user.history[i])))

\* User.where("a", 1) ... User.orderByDesc("a").get(): the second query has
\* nothing of the first
C27_Witness ==
    /\ Len(user.builders) = 2
    /\ user.history = << << <<"where", "a", 1>>, <<"limit">> >>,
                         << <<"orderByDesc">>, <<"get">> >> >>
    /\ outcome.call = "get"
    /\ Str(Stmt.sql) = "SELECT * FROM users ORDER BY a DESC"
    /\ Stmt.args = <<>>

=============================================================================
